---- MODULE Spec2Model ----
(***************************************************************************)
(* A model of the breadth-first crawl engine (scraper/core/crawler.py) and *)
(* of the URL helpers it relies on (scraper/utils/url_filter.py).          *)
(*                                                                         *)
(* A URL string is a sequence of tokens.  The first token is the text up   *)
(* to the end of the authority ("https://a.com"; "" for a relative URL),   *)
(* every later token is one character.  urlparse never looks inside the    *)
(* first token except to read its scheme and its netloc.                   *)
(***************************************************************************)
EXTENDS Integers, Sequences, FiniteSets, TLC

\* ------------------------------------------------------------------ bounds

\* largest max_pages argument tried (besides None)
MaxPagesArg == 2
\* largest max_depth argument tried (besides None)
MaxDepthArg == 1
\* crawl() calls on one engine in SpecSession
MaxCrawls == 2

\* Python's None for an Optional[int] argument
None == -1

\* ------------------------------------------------------------- URL strings

A    == "https://a.com"
AH   == "http://a.com"
AP   == "https://a.com:8080"
B    == "https://b.com"
EV   == "https://evil-a.com"
FTP  == "ftp://a.com"
\* the empty authority of a relative URL such as "/x" or "x"
REL  == ""
\* a bare host, as a caller may pass it for a domain: no scheme, so urlparse
\* reads it as a path
BareA == "a.com"

\* urlparse(url).scheme of a string that starts with the token o
Scheme(o) ==
  CASE o \in {A, AP, B, EV} -> "https"
    [] o = AH               -> "http"
    [] o = FTP              -> "ftp"
    [] OTHER                -> ""

\* urlparse(url).netloc of a string that starts with the token o
Netloc(o) ==
  CASE o \in {A, AH, FTP} -> "a.com"
    [] o = AP             -> "a.com:8080"
    [] o = B              -> "b.com"
    [] o = EV             -> "evil-a.com"
    [] OTHER              -> ""

\* str.endswith on "scheme://netloc" for a bare host d
DomainEndsWith(o, d) ==
  CASE d = BareA -> Netloc(o) \in {"a.com", "evil-a.com"}
    [] d = REL   -> TRUE
    [] OTHER     -> o = d

\* the first position of character c in s, 0 when absent (str.split(c, 1))
FirstIndex(s, c) ==
  IF \E i \in 1..Len(s) : s[i] = c
    THEN CHOOSE i \in 1..Len(s) : s[i] = c /\ \A j \in 1..(i - 1) : s[j] # c
    ELSE 0

\* urllib.parse.urlparse: the fragment is split off first, then the query
UrlParse(url) ==
  LET rest == Tail(url)
      h    == FirstIndex(rest, "#")
      noFr == IF h = 0 THEN rest ELSE SubSeq(rest, 1, h - 1)
      frag == IF h = 0 THEN <<>> ELSE SubSeq(rest, h + 1, Len(rest))
      q    == FirstIndex(noFr, "?")
      path == IF q = 0 THEN noFr ELSE SubSeq(noFr, 1, q - 1)
      qry  == IF q = 0 THEN <<>> ELSE SubSeq(noFr, q + 1, Len(noFr))
  IN  [origin |-> Head(url), path |-> path, query |-> qry, fragment |-> frag]

\* ParseResult.geturl(): an empty query or fragment loses its delimiter
GetUrl(p) ==
  <<p.origin>> \o p.path
     \o (IF p.query = <<>> THEN <<>> ELSE <<"?">> \o p.query)
     \o (IF p.fragment = <<>> THEN <<>> ELSE <<"#">> \o p.fragment)

\* str.endswith('/')
EndsWithSlash(s) == Len(s) > 1 /\ s[Len(s)] = "/"

\* str.rstrip('/'): every trailing slash goes
RECURSIVE RStripSlash(_)
RStripSlash(s) == IF EndsWithSlash(s) THEN RStripSlash(SubSeq(s, 1, Len(s) - 1)) ELSE s

\* a normalize_url that removes the fragment and leaves the slashes
NormalizeUrlKeepsSlash(url) ==
  GetUrl([UrlParse(url) EXCEPT !.fragment = <<>>])

\* URLFilter.normalize_url
NormalizeUrl(url) ==
  LET parsed     == UrlParse(url)
      normalized == GetUrl([parsed EXCEPT !.fragment = <<>>])
  IN  IF EndsWithSlash(normalized) /\ parsed.path # <<"/">>
        THEN RStripSlash(normalized)
        ELSE normalized

\* URLFilter.get_domain: f"{scheme}://{netloc}"
GetDomain(url) == IF Scheme(Head(url)) = "" THEN <<"://">> ELSE <<Head(url)>>

\* is_valid_url with the scheme test weakened to "has a scheme"
IsValidUrlAnyScheme(url) == Scheme(Head(url)) # ""

\* URLFilter.is_valid_url
IsValidUrl(url) == Scheme(Head(url)) \in {"http", "https"}

\* same_domain comparing the netlocs only, whatever the scheme
SameDomainAnyScheme(url1, url2) == Netloc(Head(url1)) = Netloc(Head(url2))

\* URLFilter.same_domain: a second argument without http:// or https:// is a
\* bare host, matched by suffix or by equality with a scheme put in front
SameDomain(url1, url2) ==
  IF Scheme(Head(url2)) \notin {"http", "https"}
    THEN LET domain1 == GetDomain(url1)
         IN  \/ Len(url2) = 1 /\ domain1 # <<"://">> /\ DomainEndsWith(domain1[1], url2[1])
             \/ Len(url2) = 1 /\ url2[1] = REL
             \/ Len(url2) = 1 /\ Scheme(domain1[1]) \in {"http", "https"}
                   /\ Netloc(domain1[1]) = url2[1]
    ELSE GetDomain(url1) = GetDomain(url2)

\* ------------------------------------------------- the site being crawled

Root      == <<A>>
RootSlash == <<A, "/">>
PX        == <<A, "/", "x">>
PY        == <<A, "/", "y">>
PZ        == <<A, "/", "z">>
PW        == <<A, "/", "w">>
BPX        == <<B, "/", "x">>
BPY        == <<B, "/", "y">>
HX        == <<AH, "/", "x">>
APX       == <<AP, "/", "x">>
EVX       == <<EV, "/", "x">>
FX        == <<FTP, "/", "x">>
RelX      == <<REL, "/", "x">>
NotAUrl   == <<REL, "x">>

\* The web as one crawl finds it: what get_page and extract_links give for
\* each URL.  "cyclic" has self-links, cycles, a page linked from two pages,
\* and links that differ in fragment or trailing slash only; "deadx" is the
\* same site with /x failing and "flaky" the same site with any fetch failing
\* or not; "external" links to other hosts, schemes and ports; in "down"
\* every fetch fails.
Worlds == {"cyclic", "deadx", "flaky", "external", "down"}

\* what WebScraper.get_page(url) may give: a document ("soup") or None
FetchResults(w, url) ==
  CASE w = "down"           -> {"None"}
    [] w = "flaky"          -> {"soup", "None"}
    [] w = "deadx" /\ url = PX -> {"None"}
    [] OTHER                -> {"soup"}

\* WebScraper.extract_links(soup, url): the hrefs in document order
Links(w, url) ==
  IF w \in {"cyclic", "deadx", "flaky"}
    THEN CASE url = Root -> << <<A, "/", "x", "/">>, <<A, "/", "y", "#", "f">>,
                               <<A, "#", "t">>, RootSlash >>
           [] url = PX   -> << PY, PX, PZ >>
           [] url = PY   -> << <<A, "/", "z", "/">>, Root, PX >>
           [] url = PZ   -> << <<A, "/", "x", "#", "f">>, PW >>
           [] OTHER      -> << >>
    ELSE CASE url = Root -> << BPX, HX, APX, FX, RelX, PX, EVX >>
           [] url = PX   -> << BPY, PY >>
           [] url = BPX   -> << PX, BPY, <<A, "/", "y", "/">> >>
           [] OTHER      -> << >>

\* the start_url arguments tried
StartUrls == {Root, <<A, "/", "x", "/", "#", "f">>, BPX, FX, NotAUrl}

\* the url_filter arguments tried: None, lambda url: 'x' in url (rejects the
\* start URL https://a.com), lambda url: 'y' not in url
UrlFilters == {"None", "has_x", "no_y"}

\* url_filter(url), for a url_filter that is not None
ApplyFilter(f, url) ==
  CASE f = "has_x" -> \E i \in 2..Len(url) : url[i] = "x"
    [] f = "no_y"  -> \A i \in 2..Len(url) : url[i] # "y"
    [] OTHER       -> TRUE

\* ------------------------------------------------------------ the extractor

\* The DataExtractor given to the engine: None, one that returns a dict per
\* page (BasicExtractor), one that returns a list of chunks (RAGExtractor),
\* and one that raises on /x, returns None on /y and a dict elsewhere.
Extractors == {"None", "basic", "rag", "faulty"}

Record(url, depth, i) == [url |-> url, depth |-> depth, chunk |-> i]

\* DataExtractor.extract(url, soup, metadata): what the call gives
Extract(e, url, depth) ==
  CASE e = "basic" -> [kind |-> "dict", value |-> <<Record(url, depth, 0)>>]
    [] e = "rag"   ->
         [kind |-> "list",
          value |-> CASE url = PX -> <<Record(url, depth, 1), Record(url, depth, 2)>>
                      [] url = PY -> << >>
                      [] OTHER    -> <<Record(url, depth, 1)>>]
    [] OTHER       ->
         CASE url = PX -> [kind |-> "raise", value |-> << >>]
           [] url = PY -> [kind |-> "None", value |-> << >>]
           [] OTHER    -> [kind |-> "dict", value |-> <<Record(url, depth, 0)>>]

\* ---------------------------------------------------------------- the state

VARIABLES
  extractor,       \* WebCrawler.extractor
  visited_urls,    \* WebCrawler.visited_urls: Set[str]
  to_visit,        \* WebCrawler.to_visit: deque of (url, depth)
  collected_urls,  \* the contents of the list object WebCrawler.collected_urls
  collected_data,  \* the contents of the list object WebCrawler.collected_data
  pc,              \* "idle", "running" (at the head of the while loop),
                   \* "returned", "raised"
  args,            \* the locals of the running crawl() call
  world,           \* the site as this crawl finds it
  calls,           \* the calls crawl() has made on its collaborators and logger
  results,         \* the dict the last crawl() returned to its caller
  crawls,          \* crawl() calls made on this engine
  api,             \* the ScraperAPI or RAGScraper session that owns the engine
  batch,           \* one BatchScraper.crawl_multiple_sites call
  rag,             \* one RAGExtractor.extract call
  util             \* one use of the URLFilter functions

vars == <<extractor, visited_urls, to_visit, collected_urls, collected_data,
          pc, args, world, calls, results, crawls, api, batch, rag, util>>

\* what lies outside an engine that is used directly
outer == <<api, batch, rag, util>>

NoArgs == [start_url |-> << >>, base_domain |-> << >>, max_depth |-> None,
           max_pages |-> None, stay_within_domain |-> TRUE, url_filter |-> "None"]

NoResults == [urls |-> "", data |-> "", stats |-> << >>]

Call(op, url, depth, res) == [op |-> op, url |-> url, depth |-> depth, res |-> res]

\* WebCrawler.__init__
\* the outcome of the last session operation: its name, what it returned
\* ("raise" when it raised) and the writer calls it made
NoCall == [op |-> "", ret |-> "", writer |-> << >>]

\* no session: the engine is used directly
NoApi == [kind |-> "None", scraper |-> "None", crawler |-> "None",
          extractor |-> "None", custom |-> "None", inits |-> 0, closes |-> 0,
          last |-> NoCall]

\* no batch call
NoBatch == [pc |-> "none", sites |-> << >>, extractor_type |-> "", max_workers |-> 0,
            world |-> "", engines |-> << >>, collected |-> {}, results |-> << >>]

\* no extract call
NoRag == [pc |-> "none", doc |-> << >>, elements |-> << >>, i |-> 0, target |-> 0,
          page_title |-> << >>,
          section |-> [h1 |-> << >>, h2 |-> << >>, h3 |-> << >>, content |-> << >>],
          chunks |-> << >>]

\* no URLFilter call
NoUtil == [pc |-> "none", url |-> << >>, domain |-> << >>, out |-> << >>,
           same |-> "", visit |-> << >>]

\* WebCrawler.__init__: an engine with an empty visited set, frontier and lists
Init ==
  /\ api = NoApi
  /\ batch = NoBatch
  /\ rag = NoRag
  /\ util = NoUtil
  /\ extractor \in Extractors
  /\ visited_urls = {}
  /\ to_visit = << >>
  /\ collected_urls = << >>
  /\ collected_data = << >>
  /\ pc = "idle"
  /\ args = NoArgs
  /\ world = "down"
  /\ calls = << >>
  /\ results = NoResults
  /\ crawls = 0

\* --------------------------------------------------------- WebCrawler code

\* Python truth of an Optional[int]: None and 0 are false
Truthy(n) == n # None /\ n # 0

\* the page cap tested with > instead of >=
MaxPagesReachedLate(visited, max_pages) ==
  Truthy(max_pages) /\ Cardinality(visited) > max_pages

\* crawl(), line 46: max_pages and len(self.visited_urls) >= max_pages
MaxPagesReached(visited, max_pages) ==
  Truthy(max_pages) /\ Cardinality(visited) >= max_pages

\* the depth test off by one
DepthExceededOffByOne(depth, max_depth) == max_depth # None /\ depth > max_depth + 1

\* crawl(), line 52: max_depth is not None and depth > max_depth
DepthExceeded(depth, max_depth) == max_depth # None /\ depth > max_depth

\* the visited test at the pop left out
AlreadyVisitedNever(visited, url) == FALSE

\* crawl(), line 55: current_url in self.visited_urls
AlreadyVisited(visited, url) == url \in visited

\* a loop that does not apply url_filter to the popped URL
FilterRejectsNever(filter, url) == FALSE

\* crawl(), line 58: url_filter and not url_filter(current_url)
FilterRejects(filter, url) == filter # "None" /\ ~ApplyFilter(filter, url)

\* _should_visit without its visited test
ShouldVisitNoVisitedTest(visited, url, base_domain, stay_within_domain, filter) ==
  /\ IsValidUrl(url)
  /\ stay_within_domain => SameDomain(url, base_domain)
  /\ filter # "None" => ApplyFilter(filter, url)

\* WebCrawler._should_visit
ShouldVisit(visited, url, base_domain, stay_within_domain, filter) ==
  IF url \in visited THEN FALSE
  ELSE IF ~IsValidUrl(url) THEN FALSE
  ELSE IF stay_within_domain /\ ~SameDomain(url, base_domain) THEN FALSE
  ELSE IF filter # "None" /\ ~ApplyFilter(filter, url) THEN FALSE
  ELSE TRUE

\* appendleft instead of append: the frontier becomes a stack
EnqueueLeft(queue, url, depth) == << <<url, depth + 1>> >> \o queue

\* crawl(), line 97: self.to_visit.append((normalized_link, depth + 1))
Enqueue(queue, url, depth) == Append(queue, <<url, depth + 1>>)

\* crawl(), lines 88-97: the loop over the links of one page
RECURSIVE Discover(_, _, _, _, _)
Discover(queue, links, depth, visited, a) ==
  IF links = << >> THEN queue
  ELSE LET normalized_link == NormalizeUrl(Head(links))
       IN  Discover(IF ShouldVisit(visited, normalized_link, a.base_domain,
                                   a.stay_within_domain, a.url_filter)
                      THEN Enqueue(queue, normalized_link, depth)
                      ELSE queue,
                    Tail(links), depth, visited, a)

\* crawl(), lines 78-82: what one extract() result adds to collected_data
Collect(data, out) ==
  CASE out.kind = "dict" -> Append(data, out.value[1])
    [] out.kind = "list" -> data \o out.value
    [] OTHER             -> data

\* get_results with collected_count taken from the data list
GetResultsCountsData ==
  [urls  |-> "self.collected_urls",
   data  |-> "self.collected_data",
   stats |-> [visited_count   |-> Cardinality(visited_urls),
              queued_count    |-> Len(to_visit),
              collected_count |-> Len(collected_data),
              data_count      |-> Len(collected_data)]]

\* WebCrawler.get_results: 'urls' and 'data' are the engine's own list
\* objects, 'stats' is a new dict of numbers
GetResults ==
  [urls  |-> "self.collected_urls",
   data  |-> "self.collected_data",
   stats |-> [visited_count   |-> Cardinality(visited_urls),
              queued_count    |-> Len(to_visit),
              collected_count |-> Len(collected_urls),
              data_count      |-> Len(collected_data)]]

\* a crawl() that does not call _reset: the visited set and the two lists stay
CrawlKeepsState(start_url, max_depth, max_pages, stay_within_domain, filter, w) ==
  LET start == NormalizeUrl(start_url)
  IN  /\ crawls' = crawls + 1
      /\ calls' = << >>
      /\ world' = w
      /\ IF ~IsValidUrl(start)
           THEN /\ pc' = "raised"
                /\ to_visit' = << >>
                /\ args' = [NoArgs EXCEPT !.start_url = start]
           ELSE /\ pc' = "running"
                /\ to_visit' = << <<start, 0>> >>
                /\ args' = [start_url |-> start, base_domain |-> GetDomain(start),
                            max_depth |-> max_depth, max_pages |-> max_pages,
                            stay_within_domain |-> stay_within_domain,
                            url_filter |-> filter]
      /\ UNCHANGED <<extractor, results, visited_urls, collected_urls,
                     collected_data, outer>>

\* a crawl() that checks the start URL before it resets the engine
CrawlBodyValidatesFirst(start_url, max_depth, max_pages, stay_within_domain, filter, w) ==
  LET start == NormalizeUrl(start_url)
  IN  /\ calls' = << >>
      /\ world' = w
      /\ IF ~IsValidUrl(start)
           THEN /\ pc' = "raised"
                /\ args' = [NoArgs EXCEPT !.start_url = start]
                /\ UNCHANGED <<visited_urls, to_visit, collected_urls, collected_data>>
           ELSE /\ pc' = "running"
                /\ visited_urls' = {}
                /\ collected_urls' = << >>
                /\ collected_data' = << >>
                /\ to_visit' = << <<start, 0>> >>
                /\ args' = [start_url |-> start, base_domain |-> GetDomain(start),
                            max_depth |-> max_depth, max_pages |-> max_pages,
                            stay_within_domain |-> stay_within_domain,
                            url_filter |-> filter]

\* crawl(), lines 32-40: _reset, then the start URL is normalized and checked
CrawlBody(start_url, max_depth, max_pages, stay_within_domain, filter, w) ==
  LET start == NormalizeUrl(start_url)
  IN  /\ visited_urls' = {}
      /\ collected_urls' = << >>
      /\ collected_data' = << >>
      /\ calls' = << >>
      /\ world' = w
      /\ IF ~IsValidUrl(start)
           THEN /\ pc' = "raised"
                /\ to_visit' = << >>
                /\ args' = [NoArgs EXCEPT !.start_url = start]
           ELSE /\ pc' = "running"
                /\ to_visit' = << <<start, 0>> >>
                /\ args' = [start_url |-> start, base_domain |-> GetDomain(start),
                            max_depth |-> max_depth, max_pages |-> max_pages,
                            stay_within_domain |-> stay_within_domain,
                            url_filter |-> filter]

\* a crawl() call on an engine that is used directly
Crawl(start_url, max_depth, max_pages, stay_within_domain, filter, w) ==
  /\ crawls' = crawls + 1
  /\ CrawlBody(start_url, max_depth, max_pages, stay_within_domain, filter, w)
  /\ UNCHANGED <<extractor, results, outer>>

\* the first crawl() on a new engine
CrawlCall ==
  /\ pc = "idle"
  /\ \E start_url \in StartUrls, max_depth \in {None} \cup 0..MaxDepthArg,
        max_pages \in {None} \cup 0..MaxPagesArg, stay_within_domain \in BOOLEAN,
        filter \in UrlFilters, w \in Worlds :
       Crawl(start_url, max_depth, max_pages, stay_within_domain, filter, w)

\* the arguments tried for a later crawl() on the same engine
AgainStartUrls == {Root, BPX, FX}
AgainWorlds    == {"cyclic", "external"}

\* a later crawl() on the same engine, after the last one returned or raised
CrawlAgain ==
  /\ pc \in {"returned", "raised"}
  /\ crawls < MaxCrawls
  /\ \E start_url \in AgainStartUrls, max_pages \in {None, 1}, w \in AgainWorlds :
       Crawl(start_url, None, max_pages, TRUE, "None", w)

\* crawl(), line 101: return self.get_results()
Return ==
  /\ pc' = "returned"
  /\ results' = GetResults
  /\ UNCHANGED <<extractor, visited_urls, to_visit, collected_urls,
                 collected_data, args, world, calls, crawls, outer>>

\* crawl(), line 45: the frontier is empty
LoopExit ==
  /\ pc = "running"
  /\ to_visit = << >>
  /\ Return

\* crawl(), lines 46-48: the page cap is reached
LoopBreak ==
  /\ pc = "running"
  /\ to_visit # << >>
  /\ MaxPagesReached(visited_urls, args.max_pages)
  /\ Return

\* crawl(), line 50: an entry can be popped
CanPop ==
  /\ pc = "running"
  /\ to_visit # << >>
  /\ ~MaxPagesReached(visited_urls, args.max_pages)

\* a continue that puts the popped entry back at the end of the frontier
SkipRequeues ==
  /\ to_visit' = Append(Tail(to_visit), Head(to_visit))
  /\ UNCHANGED <<extractor, visited_urls, collected_urls, collected_data,
                 pc, args, world, calls, results, crawls, outer>>

\* crawl(), lines 52-59: the popped entry is dropped by one of the three
\* continue statements
Skip ==
  /\ to_visit' = Tail(to_visit)
  /\ UNCHANGED <<extractor, visited_urls, collected_urls, collected_data,
                 pc, args, world, calls, results, crawls, outer>>

SkipDepth ==
  /\ CanPop
  /\ DepthExceeded(Head(to_visit)[2], args.max_depth)
  /\ Skip

SkipVisited ==
  /\ CanPop
  /\ ~DepthExceeded(Head(to_visit)[2], args.max_depth)
  /\ AlreadyVisited(visited_urls, Head(to_visit)[1])
  /\ Skip

SkipFilter ==
  /\ CanPop
  /\ ~DepthExceeded(Head(to_visit)[2], args.max_depth)
  /\ ~AlreadyVisited(visited_urls, Head(to_visit)[1])
  /\ FilterRejects(args.url_filter, Head(to_visit)[1])
  /\ Skip

\* crawl(), lines 50-61: the popped entry passes the three checks
CanVisit ==
  /\ CanPop
  /\ ~DepthExceeded(Head(to_visit)[2], args.max_depth)
  /\ ~AlreadyVisited(visited_urls, Head(to_visit)[1])
  /\ ~FilterRejects(args.url_filter, Head(to_visit)[1])

\* the fetch made before the page is marked: a failed page is not counted
VisitFetchFailUnmarked ==
  /\ CanVisit
  /\ LET current_url == Head(to_visit)[1]
         depth       == Head(to_visit)[2]
     IN  /\ "None" \in FetchResults(world, current_url)
         /\ to_visit' = Tail(to_visit)
         /\ calls' = calls \o << Call("visiting", current_url, depth, ""),
                                 Call("get_page", current_url, depth, "None") >>
  /\ UNCHANGED <<extractor, visited_urls, collected_urls, collected_data, pc,
                 args, world, results, crawls, outer>>

\* crawl(), lines 61-71: the page is marked visited and its fetch fails
VisitFetchFail ==
  /\ CanVisit
  /\ LET current_url == Head(to_visit)[1]
         depth       == Head(to_visit)[2]
     IN  /\ "None" \in FetchResults(world, current_url)
         /\ visited_urls' = visited_urls \cup {current_url}
         /\ collected_urls' = Append(collected_urls, current_url)
         /\ to_visit' = Tail(to_visit)
         /\ calls' = calls \o << Call("visiting", current_url, depth, ""),
                                 Call("get_page", current_url, depth, "None") >>
  /\ UNCHANGED <<extractor, collected_data, pc, args, world, results, crawls, outer>>

\* the try block drawn around the link loop too: a page whose extraction
\* raises has its links left unread
VisitPageErrorSkipsLinks ==
  /\ CanVisit
  /\ LET current_url == Head(to_visit)[1]
         depth       == Head(to_visit)[2]
         out         == Extract(extractor, current_url, depth)
         failed      == extractor # "None" /\ out.kind = "raise"
     IN  /\ "soup" \in FetchResults(world, current_url)
         /\ visited_urls' = visited_urls \cup {current_url}
         /\ collected_urls' = Append(collected_urls, current_url)
         /\ collected_data' = IF extractor # "None"
                                THEN Collect(collected_data, out)
                                ELSE collected_data
         /\ to_visit' = IF failed THEN Tail(to_visit)
                        ELSE Discover(Tail(to_visit), Links(world, current_url), depth,
                                      visited_urls', args)
         /\ calls' = calls
              \o << Call("visiting", current_url, depth, ""),
                    Call("get_page", current_url, depth, "soup") >>
              \o (IF extractor # "None"
                    THEN << Call("extract", current_url, depth, out.kind) >>
                    ELSE << >>)
              \o (IF failed
                    THEN << Call("on_extraction_error", current_url, depth, "") >>
                    ELSE << Call("extract_links", current_url, depth, "") >>)
  /\ UNCHANGED <<extractor, pc, args, world, results, crawls, outer>>

\* crawl(), lines 61-97: the page is marked visited, fetched, handed to the
\* extractor if there is one, and its links are put on the frontier
VisitPage ==
  /\ CanVisit
  /\ LET current_url == Head(to_visit)[1]
         depth       == Head(to_visit)[2]
         out         == Extract(extractor, current_url, depth)
     IN  /\ "soup" \in FetchResults(world, current_url)
         /\ visited_urls' = visited_urls \cup {current_url}
         /\ collected_urls' = Append(collected_urls, current_url)
         /\ collected_data' = IF extractor # "None"
                                THEN Collect(collected_data, out)
                                ELSE collected_data
         /\ to_visit' = Discover(Tail(to_visit), Links(world, current_url), depth,
                                 visited_urls', args)
         /\ calls' = calls
              \o << Call("visiting", current_url, depth, ""),
                    Call("get_page", current_url, depth, "soup") >>
              \o (IF extractor # "None"
                    THEN << Call("extract", current_url, depth, out.kind) >>
                    ELSE << >>)
              \o (IF extractor # "None" /\ out.kind = "raise"
                    THEN << Call("on_extraction_error", current_url, depth, "") >>
                    ELSE << >>)
              \o << Call("extract_links", current_url, depth, "") >>
  /\ UNCHANGED <<extractor, pc, args, world, results, crawls, outer>>

Next ==
  \/ CrawlCall
  \/ LoopExit
  \/ LoopBreak
  \/ SkipDepth
  \/ SkipVisited
  \/ SkipFilter
  \/ VisitFetchFail
  \/ VisitPage

\* one crawl() call on a new engine
Spec == Init /\ [][Next]_vars

\* crawl(), lines 45-101: one pass of the while loop, or the return after it
LoopStep ==
  \/ LoopExit
  \/ LoopBreak
  \/ SkipDepth
  \/ SkipVisited
  \/ SkipFilter
  \/ VisitFetchFail
  \/ VisitPage

\* the sites and start pages tried for crawls that must come to an end: the
\* site with link cycles, with every fetch working or any fetch failing
FairStartUrls == {Root, BPX}
FairWorlds    == {"cyclic", "flaky"}
FairFilters   == {"None", "has_x"}

\* the first crawl() on a new engine, with every max_depth and max_pages
FairCrawlCall ==
  /\ pc = "idle"
  /\ \E start_url \in FairStartUrls, max_depth \in {None} \cup 0..MaxDepthArg,
        max_pages \in {None} \cup 0..MaxPagesArg, filter \in FairFilters,
        w \in FairWorlds :
       Crawl(start_url, max_depth, max_pages, TRUE, filter, w)

FairNext ==
  \/ FairCrawlCall
  \/ LoopExit
  \/ LoopBreak
  \/ SkipDepth
  \/ SkipVisited
  \/ SkipFilter
  \/ VisitFetchFail
  \/ VisitPage

\* one crawl() call whose thread keeps running: get_page, extract_links and
\* extract return, so a pass of the loop that can be made is made
SpecFair == Init /\ [][FairNext]_vars /\ WF_vars(LoopStep)

SessionNext ==
  \/ Next
  \/ CrawlAgain

\* up to MaxCrawls crawl() calls on one engine
SpecSession == Init /\ [][SessionNext]_vars

\* ------------------------------------------- ScraperAPI and RAGScraper

\* the WebScraper constructions tried in one session
MaxInits == 2

\* ScraperConfig.max_pages, the default page cap of crawl_site
ConfigMaxPages == 50

\* the default of crawl_for_rag's max_pages parameter
RagDefaultMaxPages == 100

SessionKinds == {"ScraperAPI", "RAGScraper"}

\* the methods class WebCrawler defines
WebCrawlerMethods ==
  {"__init__", "crawl", "_should_visit", "get_results", "get_total_urls",
   "get_visited_urls", "get_queued_urls", "get_all_discovered_urls",
   "get_url_statistics", "get_domain_urls", "get_urls_by_depth", "_reset"}

\* _ensure_initialized: BasicExtractor() or RAGExtractor(...)
DefaultExtractor(kind) == IF kind = "RAGScraper" THEN "rag" ELSE "basic"

\* the extractors handed to set_custom_extractor
CustomExtractors == {"faulty", "rag"}

\* _ensure_initialized: the three session fields after the call
EnsureInitialized(a) ==
  IF a.scraper = "None"
    THEN [a EXCEPT !.scraper = "open",
                   !.extractor = DefaultExtractor(a.kind),
                   !.crawler = "WebCrawler",
                   !.inits = @ + 1]
    ELSE a

\* the session is used from one thread: no operation starts during a crawl
Quiescent == pc # "running"

\* the session may construct one more WebScraper
CanInit == api.scraper # "None" \/ api.inits < MaxInits

\* WebCrawler(self._scraper, self._extractor): a new engine
NewEngine(e) ==
  /\ extractor' = e
  /\ visited_urls' = {}
  /\ to_visit' = << >>
  /\ collected_urls' = << >>
  /\ collected_data' = << >>
  /\ pc' = "idle"
  /\ args' = NoArgs
  /\ world' = "down"
  /\ calls' = << >>
  /\ results' = NoResults
  /\ crawls' = 0

EngineUnchanged ==
  UNCHANGED <<extractor, visited_urls, to_visit, collected_urls, collected_data,
              pc, args, world, calls, results, crawls>>

\* the engine after self._ensure_initialized() made the session a
EngineAfterInit(a) ==
  IF a.inits # api.inits THEN NewEngine(a.extractor) ELSE EngineUnchanged

LastCall(op, ret) == [op |-> op, ret |-> ret, writer |-> << >>]

\* ScraperAPI.scrape_page and RAGScraper.extract_from_page: one page is
\* fetched through the session's WebScraper, the engine is not used
ApiScrapePage ==
  /\ Quiescent
  /\ CanInit
  /\ \E got \in {"soup", "None"} :
       LET a == EnsureInitialized(api)
       IN  /\ api' = [a EXCEPT !.last =
                        LastCall(IF a.kind = "RAGScraper" THEN "extract_from_page"
                                                          ELSE "scrape_page",
                                 IF got = "None"
                                   THEN (IF a.kind = "RAGScraper" THEN "[]" ELSE "None")
                                   ELSE (IF a.kind = "RAGScraper" THEN "chunks" ELSE "dict"))]
           /\ EngineAfterInit(a)
  /\ UNCHANGED <<batch, rag, util>>

\* the arguments tried for crawl_site and crawl_for_rag
ApiStartUrls == {Root, FX}
ApiWorlds    == {"cyclic", "deadx"}
ApiFilters   == {"None", "has_x"}

\* a keyword argument the caller leaves out
Omitted == -2

\* crawl_site, lines 60-62, and the defaults of crawl_for_rag: the max_pages
\* the engine is given when the caller passes max_pages
EffectiveMaxPages(kind, max_pages) ==
  IF kind = "RAGScraper"
    THEN (IF max_pages = Omitted THEN RagDefaultMaxPages ELSE max_pages)
    ELSE (IF max_pages = Omitted \/ max_pages = None THEN ConfigMaxPages
                                                     ELSE max_pages)

\* ScraperAPI.crawl_site and RAGScraper.crawl_for_rag up to the point where
\* the engine's crawl() enters its loop or raises
ApiCrawlSite ==
  /\ Quiescent
  /\ CanInit
  /\ api.scraper = "None" \/ crawls < MaxCrawls
  /\ \E start_url \in ApiStartUrls, max_pages \in {Omitted, None, 1},
        max_depth \in {None, 0}, filter \in ApiFilters, w \in ApiWorlds :
       LET a == EnsureInitialized(api)
           new == a.inits # api.inits
       IN  /\ api' = [a EXCEPT !.last = LastCall(IF a.kind = "RAGScraper"
                                                   THEN "crawl_for_rag"
                                                   ELSE "crawl_site", "")]
           /\ extractor' = IF new THEN a.extractor ELSE extractor
           /\ results' = IF new THEN NoResults ELSE results
           /\ crawls' = IF new THEN 1 ELSE crawls + 1
           /\ CrawlBody(start_url, max_depth, EffectiveMaxPages(a.kind, max_pages),
                        TRUE, filter, w)
  /\ UNCHANGED <<batch, rag, util>>

\* ScraperAPI.set_custom_extractor
ApiSetCustomExtractor ==
  /\ Quiescent
  /\ api.kind = "ScraperAPI"
  /\ \E e \in CustomExtractors :
       /\ api' = [api EXCEPT !.extractor = e, !.custom = e,
                             !.last = LastCall("set_custom_extractor", "None")]
       /\ extractor' = IF api.crawler # "None" THEN e ELSE extractor
  /\ UNCHANGED <<visited_urls, to_visit, collected_urls, collected_data, pc, args,
                 world, calls, results, crawls, batch, rag, util>>

\* self._crawler.get_collected_data(): the attribute lookup and the call
GetCollectedData ==
  IF "get_collected_data" \in WebCrawlerMethods
    THEN [raised |-> FALSE, value |-> collected_data]
    ELSE [raised |-> TRUE, value |-> << >>]

\* format.lower()
Lower(format) == IF format = "JSON" THEN "json" ELSE format

\* the format arguments tried
Formats == {"json", "csv", "JSON", "xml"}

\* ScraperAPI.save_results(filename, format): the value returned and the
\* writer calls made
SaveResults(format) ==
  IF api.crawler = "None" THEN [ret |-> "False", writer |-> << >>]
  ELSE LET data == GetCollectedData
       IN  IF data.raised THEN [ret |-> "False", writer |-> << >>]
           ELSE IF data.value = << >> THEN [ret |-> "False", writer |-> << >>]
           ELSE IF Lower(format) \in {"json", "csv"}
                  THEN [ret |-> "True",
                        writer |-> << [format |-> Lower(format), data |-> data.value] >>]
                  ELSE [ret |-> "False", writer |-> << >>]

ApiSaveResults ==
  /\ Quiescent
  /\ api.kind = "ScraperAPI"
  /\ \E format \in Formats :
       api' = [api EXCEPT !.last = [op |-> "save_results_" \o Lower(format),
                                    ret |-> SaveResults(format).ret,
                                    writer |-> SaveResults(format).writer]]
  /\ EngineUnchanged
  /\ UNCHANGED <<batch, rag, util>>

\* a close() that leaves self._crawler set
CloseBodyKeepsCrawler(op) ==
  /\ Quiescent
  /\ IF api.scraper # "None"
       THEN api' = [api EXCEPT !.scraper = "None", !.extractor = "None",
                               !.custom = "None", !.closes = @ + 1,
                               !.last = LastCall(op, "None")]
       ELSE api' = [api EXCEPT !.last = LastCall(op, "None")]
  /\ EngineUnchanged
  /\ UNCHANGED <<batch, rag, util>>

\* close(), and __exit__ which calls it
CloseBody(op) ==
  /\ Quiescent
  /\ IF api.scraper # "None"
       THEN /\ api' = [api EXCEPT !.scraper = "None", !.crawler = "None",
                                  !.extractor = "None", !.custom = "None",
                                  !.closes = @ + 1, !.last = LastCall(op, "None")]
            /\ NewEngine("None")
       ELSE /\ api' = [api EXCEPT !.last = LastCall(op, "None")]
            /\ EngineUnchanged
  /\ UNCHANGED <<batch, rag, util>>

ApiClose == CloseBody("close")

ApiExit == CloseBody("__exit__")

\* [url for url, depth in self.to_visit], as a set
FrontierUrlsOf(queue) == {queue[i][1] : i \in 1..Len(queue)}

\* ScraperAPI.get_url_statistics
GetUrlStatistics ==
  IF api.crawler = "None" THEN [error |-> "No crawl performed yet"]
  ELSE [total_urls   |-> Cardinality(visited_urls) + Len(to_visit),
        visited_urls |-> Cardinality(visited_urls),
        queued_urls  |-> Len(to_visit)]

\* ScraperAPI.get_all_urls, as the set of URLs in the list returned
GetAllUrls == IF api.crawler = "None" THEN {} ELSE visited_urls \cup FrontierUrlsOf(to_visit)

\* ScraperAPI.get_visited_urls, as the set of URLs in the list returned
GetVisitedUrls == IF api.crawler = "None" THEN {} ELSE visited_urls

\* RAGScraper.get_chunks
GetChunks ==
  IF api.crawler = "None" THEN [raised |-> FALSE, value |-> << >>]
  ELSE GetCollectedData

\* RAGScraper.get_chunks_by_page(url)
GetChunksByPage(url) ==
  IF GetChunks.raised THEN GetChunks
  ELSE [raised |-> FALSE,
        value |-> SelectSeq(GetChunks.value, LAMBDA chunk : chunk.url = url)]

\* ScraperAPI() or RAGScraper(): nothing is created yet
InitApi ==
  /\ api \in {[NoApi EXCEPT !.kind = k] : k \in SessionKinds}
  /\ batch = NoBatch
  /\ rag = NoRag
  /\ util = NoUtil
  /\ extractor = "None"
  /\ visited_urls = {}
  /\ to_visit = << >>
  /\ collected_urls = << >>
  /\ collected_data = << >>
  /\ pc = "idle"
  /\ args = NoArgs
  /\ world = "down"
  /\ calls = << >>
  /\ results = NoResults
  /\ crawls = 0

ApiNext ==
  \/ ApiScrapePage
  \/ ApiCrawlSite
  \/ ApiSetCustomExtractor
  \/ ApiSaveResults
  \/ ApiClose
  \/ ApiExit
  \/ LoopExit
  \/ LoopBreak
  \/ SkipDepth
  \/ SkipVisited
  \/ SkipFilter
  \/ VisitFetchFail
  \/ VisitPage

\* one ScraperAPI or RAGScraper session used from one thread
SpecApi == InitApi /\ [][ApiNext]_vars

\* ---------------------------------------------------------- BatchScraper

\* the max_workers values tried
MaxWorkers == 2

\* site_config.get('max_pages', 50)
BatchDefaultMaxPages == 50

\* the site configurations tried: overlapping sites, a capped one, one that
\* leaves its domain, one whose start URL is invalid
SiteConfigs ==
  {[url |-> Root, max_pages |-> Omitted, stay_within_domain |-> TRUE],
   [url |-> PX,   max_pages |-> Omitted, stay_within_domain |-> FALSE],
   [url |-> BPX,  max_pages |-> 1,       stay_within_domain |-> TRUE],
   [url |-> FX,   max_pages |-> Omitted, stay_within_domain |-> TRUE]}

\* the sites arguments tried
BatchSiteLists ==
  {<<c>> : c \in SiteConfigs} \cup {<<c, d>> : c \in SiteConfigs, d \in SiteConfigs}

\* the webs tried: in each of them every fetch has one outcome
BatchWorlds == {"cyclic", "deadx", "external"}

\* _crawl_single_site, lines 104-111: a WebScraper, an extractor and a
\* WebCrawler of the worker's own, before crawl() is called
NewBatchEngine ==
  [pc |-> "pending", visited_urls |-> {}, to_visit |-> << >>,
   collected_urls |-> << >>, collected_data |-> << >>, args |-> NoArgs,
   closed |-> FALSE]

\* _crawl_single_site, lines 106-109
BatchExtractor(extractor_type) == IF extractor_type = "rag" THEN "rag" ELSE "basic"

\* _crawl_single_site, lines 113-126, and crawl(), lines 32-43: the engine when
\* crawl() reaches its loop, or after crawl() raised and finally closed the
\* scraper
StartEngine(e, site) ==
  LET start == NormalizeUrl(site.url)
  IN  IF ~IsValidUrl(start)
        THEN [e EXCEPT !.pc = "raised", !.closed = TRUE,
                       !.args = [NoArgs EXCEPT !.start_url = start]]
        ELSE [e EXCEPT !.pc = "running",
                       !.to_visit = << <<start, 0>> >>,
                       !.args = [start_url |-> start,
                                 base_domain |-> GetDomain(start),
                                 max_depth |-> None,
                                 max_pages |-> IF site.max_pages = Omitted
                                                 THEN BatchDefaultMaxPages
                                                 ELSE site.max_pages,
                                 stay_within_domain |-> site.stay_within_domain,
                                 url_filter |-> "None"]]

\* crawl(), lines 45-101, on the engine e whose visited set reads as visited:
\* one pass of the loop, or the return and the finally clause after it
StepEngine(e, visited, ext, w) ==
  IF e.to_visit = << >> \/ MaxPagesReached(visited, e.args.max_pages)
    THEN [e EXCEPT !.pc = "returned", !.closed = TRUE]
  ELSE LET current_url == Head(e.to_visit)[1]
           depth       == Head(e.to_visit)[2]
           rest        == Tail(e.to_visit)
           out         == Extract(ext, current_url, depth)
       IN  IF \/ DepthExceeded(depth, e.args.max_depth)
              \/ AlreadyVisited(visited, current_url)
              \/ FilterRejects(e.args.url_filter, current_url)
             THEN [e EXCEPT !.to_visit = rest]
           ELSE IF FetchResults(w, current_url) = {"None"}
             THEN [e EXCEPT !.to_visit = rest,
                            !.visited_urls = @ \cup {current_url},
                            !.collected_urls = Append(@, current_url)]
           ELSE [e EXCEPT !.visited_urls = @ \cup {current_url},
                          !.collected_urls = Append(@, current_url),
                          !.collected_data = Collect(@, out),
                          !.to_visit = Discover(rest, Links(w, current_url), depth,
                                                visited \cup {current_url}, e.args)]

\* a visited set that is an attribute of the class: every engine reads the
\* pages any engine has marked
VisitedShared(b, i) ==
  UNION {b.engines[j].visited_urls : j \in 1..Len(b.engines)}

\* self.visited_urls of the engine of worker i
VisitedOf(b, i) == b.engines[i].visited_urls

\* the workers whose crawl is under way
Running(b) == {i \in 1..Len(b.engines) : b.engines[i].pc = "running"}

\* crawl_multiple_sites, lines 57-65: every site is submitted to the pool
BatchCall ==
  /\ batch.pc = "none"
  /\ \E sites \in BatchSiteLists, extractor_type \in {"basic", "rag"},
        max_workers \in 1..MaxWorkers, w \in BatchWorlds :
       batch' = [pc |-> "running", sites |-> sites,
                 extractor_type |-> extractor_type, max_workers |-> max_workers,
                 world |-> w,
                 engines |-> [i \in 1..Len(sites) |-> NewBatchEngine],
                 collected |-> {}, results |-> << >>]
  /\ EngineUnchanged
  /\ UNCHANGED <<api, rag, util>>

\* a free worker thread takes the next submitted site and calls
\* _crawl_single_site up to the loop of crawl()
WorkerStart ==
  /\ batch.pc = "running"
  /\ \E i \in 1..Len(batch.engines) :
       /\ batch.engines[i].pc = "pending"
       /\ \A j \in 1..(i - 1) : batch.engines[j].pc # "pending"
       /\ Cardinality(Running(batch)) < batch.max_workers
       /\ batch' = [batch EXCEPT !.engines[i] = StartEngine(@, batch.sites[i])]
  /\ EngineUnchanged
  /\ UNCHANGED <<api, rag, util>>

\* a worker thread makes one pass of its crawl loop, or returns from it
WorkerStep ==
  /\ batch.pc = "running"
  /\ \E i \in Running(batch) :
       batch' = [batch EXCEPT !.engines[i] =
                   StepEngine(@, VisitedOf(batch, i),
                              BatchExtractor(batch.extractor_type), batch.world)]
  /\ EngineUnchanged
  /\ UNCHANGED <<api, rag, util>>

\* WebCrawler.get_results on the engine of a worker
EngineResults(e) ==
  [urls  |-> e.collected_urls,
   data  |-> e.collected_data,
   stats |-> [visited_count   |-> Cardinality(e.visited_urls),
              queued_count    |-> Len(e.to_visit),
              collected_count |-> Len(e.collected_urls),
              data_count      |-> Len(e.collected_data)]]

\* crawl_multiple_sites, lines 70-75: the entry stored for a finished future
SiteEntry(site, e) ==
  IF e.pc = "raised"
    THEN [error |-> "ValueError", url |-> site.url]
    ELSE [url |-> site.url, results |-> EngineResults(e), status |-> "success"]

\* results[site_url] = ...: a dict assignment
DictSet(d, key, value) ==
  IF \E k \in 1..Len(d) : d[k].key = key
    THEN [k \in 1..Len(d) |-> IF d[k].key = key THEN [key |-> key, value |-> value]
                                                 ELSE d[k]]
    ELSE Append(d, [key |-> key, value |-> value])

\* crawl_multiple_sites, lines 67-75: as_completed hands over a finished future
BatchCollect ==
  /\ batch.pc = "running"
  /\ \E i \in 1..Len(batch.engines) :
       /\ batch.engines[i].pc \in {"returned", "raised"}
       /\ i \notin batch.collected
       /\ batch' = [batch EXCEPT
                      !.collected = @ \cup {i},
                      !.results = DictSet(@, batch.sites[i].url,
                                          SiteEntry(batch.sites[i], batch.engines[i]))]
  /\ EngineUnchanged
  /\ UNCHANGED <<api, rag, util>>

\* crawl_multiple_sites, lines 77-78: every future was handed over
BatchReturn ==
  /\ batch.pc = "running"
  /\ batch.collected = 1..Len(batch.engines)
  /\ batch' = [batch EXCEPT !.pc = "returned"]
  /\ EngineUnchanged
  /\ UNCHANGED <<api, rag, util>>

InitBatch ==
  /\ api = NoApi
  /\ batch = NoBatch
  /\ rag = NoRag
  /\ util = NoUtil
  /\ extractor = "None"
  /\ visited_urls = {}
  /\ to_visit = << >>
  /\ collected_urls = << >>
  /\ collected_data = << >>
  /\ pc = "idle"
  /\ args = NoArgs
  /\ world = "down"
  /\ calls = << >>
  /\ results = NoResults
  /\ crawls = 0

BatchNext ==
  \/ BatchCall
  \/ WorkerStart
  \/ WorkerStep
  \/ BatchCollect
  \/ BatchReturn

\* one crawl_multiple_sites call with its worker threads
SpecBatch == InitBatch /\ [][BatchNext]_vars

\* crawling one site alone: the engine when its crawl() has returned or raised
RECURSIVE RunAlone(_, _, _)
RunAlone(e, ext, w) ==
  IF e.pc # "running" THEN e
  ELSE RunAlone(StepEngine(e, e.visited_urls, ext, w), ext, w)

\* ------------------------------------------------------------- URLFilter

\* the length of what follows "scheme://netloc" in a URL, and the number of
\* times normalize_url is applied to its own result
MaxUrlLen    == 3
MaxNormalize == 2

\* the URLs given to the URLFilter functions: an origin followed by at most
\* MaxUrlLen characters that begin a path, a query or a fragment, and two
\* relative ones
UtilUrls ==
  { <<o>> \o t : o \in {A, AH, AP, B, EV, FTP},
                 t \in { x \in UNION { [1..n -> {"/", "x", "?", "#"}] : n \in 0..MaxUrlLen } :
                           x = << >> \/ x[1] # "x" } }
    \cup {RelX, NotAUrl}

\* the second arguments given to same_domain: URLs with http:// or https://,
\* bare hosts, a URL of another scheme
UtilDomains == { <<A>>, <<AH>>, <<B>>, PX, <<BareA>>, <<FTP>>, <<REL>> }

\* normalize_url is applied to the URL, then to what it last returned
UtilNormalizeUrl ==
  /\ util.pc = "called" /\ Len(util.out) < MaxNormalize
  /\ util' = [util EXCEPT !.out = Append(@, NormalizeUrl(IF @ = << >> THEN util.url
                                                         ELSE @[Len(@)]))]
  /\ UNCHANGED <<extractor, visited_urls, to_visit, collected_urls, collected_data,
                 pc, args, world, calls, results, crawls, api, batch, rag>>

\* same_domain(url, domain)
UtilSameDomain ==
  /\ util.pc = "called" /\ util.same = ""
  /\ util' = [util EXCEPT !.same = IF SameDomain(util.url, util.domain)
                                     THEN "True" ELSE "False"]
  /\ UNCHANGED <<extractor, visited_urls, to_visit, collected_urls, collected_data,
                 pc, args, world, calls, results, crawls, api, batch, rag>>

\* _should_visit(url, domain, stay_within_domain, None) on a new engine
UtilShouldVisit ==
  /\ util.pc = "called" /\ util.visit = << >>
  /\ \E stay_within_domain \in BOOLEAN :
       util' = [util EXCEPT !.visit =
                  <<[stay |-> stay_within_domain,
                     ret  |-> ShouldVisit(visited_urls, util.url, util.domain,
                                          stay_within_domain, "None")]>>]
  /\ UNCHANGED <<extractor, visited_urls, to_visit, collected_urls, collected_data,
                 pc, args, world, calls, results, crawls, api, batch, rag>>

InitUtil ==
  /\ extractor = "None"
  /\ visited_urls = {} /\ to_visit = << >>
  /\ collected_urls = << >> /\ collected_data = << >>
  /\ pc = "idle" /\ args = NoArgs /\ world = "down"
  /\ calls = << >> /\ results = NoResults /\ crawls = 0
  /\ api = NoApi /\ batch = NoBatch /\ rag = NoRag
  /\ \E url \in UtilUrls, domain \in UtilDomains :
       util = [NoUtil EXCEPT !.pc = "called", !.url = url, !.domain = domain]

SpecUtil ==
  InitUtil /\ [][UtilNormalizeUrl \/ UtilSameDomain \/ UtilShouldVisit]_vars

\* ---------------------------------------------------------- RAGExtractor

\* A text is a sequence of characters.  str.strip(): whitespace is removed at
\* both ends
IsSpace(c) == c \in {" ", "\n"}

RECURSIVE Strip(_)
Strip(text) ==
  IF text # << >> /\ IsSpace(Head(text)) THEN Strip(Tail(text))
  ELSE IF text # << >> /\ IsSpace(text[Len(text)])
    THEN Strip(SubSeq(text, 1, Len(text) - 1))
    ELSE text

\* sep.join(parts)
RECURSIVE Join(_, _)
Join(parts, sep) ==
  IF parts = << >> THEN << >>
  ELSE IF Len(parts) = 1 THEN parts[1]
  ELSE parts[1] \o sep \o Join(Tail(parts), sep)

\* text.split('. '): the pieces between the occurrences of '. ', found from
\* the left; cur is the piece being read
RECURSIVE SplitSentences(_, _)
SplitSentences(text, cur) ==
  IF text = << >> THEN <<cur>>
  ELSE IF Len(text) >= 2 /\ text[1] = "." /\ text[2] = " "
    THEN <<cur>> \o SplitSentences(SubSeq(text, 3, Len(text)), << >>)
    ELSE SplitSentences(Tail(text), Append(cur, Head(text)))

\* sentence.split(): the maximal runs of characters that are not whitespace
RECURSIVE SplitWords(_, _)
SplitWords(text, cur) ==
  IF text = << >> THEN (IF cur = << >> THEN << >> ELSE <<cur>>)
  ELSE IF IsSpace(Head(text))
    THEN (IF cur = << >> THEN << >> ELSE <<cur>>) \o SplitWords(Tail(text), << >>)
    ELSE SplitWords(Tail(text), Append(cur, Head(text)))

\* [p for p in [section['h1'], section['h2'], section['h3']] if p]
TitleParts(section) ==
  SelectSeq(<<section.h1, section.h2, section.h3>>, LAMBDA part : part # << >>)

\* the url of the page being chunked, and metadata['depth']
PageUrl   == <<"U">>
PageDepth == 0

\* a _create_chunk whose char_count adds up the fragments without the spaces
\* between them
CreateChunkCountsFragments(section, page_title) ==
  LET content_text == Join(section.content, <<" ">>)
      title_parts  == TitleParts(section)
  IN  [text |-> content_text,
       title |-> IF title_parts # << >> THEN Join(title_parts, <<" ", ">", " ">>)
                                        ELSE page_title,
       page_title |-> page_title,
       h1 |-> section.h1, h2 |-> section.h2, h3 |-> section.h3,
       url |-> PageUrl, source |-> PageUrl, depth |-> PageDepth,
       char_count |-> Len(Join(section.content, << >>)),
       chunk_id |-> PageUrl \o <<"#">> \o Join(title_parts, <<"-">>)]

\* a _create_chunk whose title is '' when there is no heading
CreateChunkNoFallback(section, page_title) ==
  LET content_text == Join(section.content, <<" ">>)
      title_parts  == TitleParts(section)
  IN  [text |-> content_text,
       title |-> Join(title_parts, <<" ", ">", " ">>),
       page_title |-> page_title,
       h1 |-> section.h1, h2 |-> section.h2, h3 |-> section.h3,
       url |-> PageUrl, source |-> PageUrl, depth |-> PageDepth,
       char_count |-> Len(content_text),
       chunk_id |-> PageUrl \o <<"#">> \o Join(title_parts, <<"-">>)]

\* RAGExtractor._create_chunk
CreateChunk(section, page_title) ==
  LET content_text == Join(section.content, <<" ">>)
      title_parts  == TitleParts(section)
  IN  [text |-> content_text,
       title |-> IF title_parts # << >> THEN Join(title_parts, <<" ", ">", " ">>)
                                        ELSE page_title,
       page_title |-> page_title,
       h1 |-> section.h1, h2 |-> section.h2, h3 |-> section.h3,
       url |-> PageUrl, source |-> PageUrl, depth |-> PageDepth,
       char_count |-> Len(content_text),
       chunk_id |-> PageUrl \o <<"#">> \o Join(title_parts, <<"-">>)]

\* RAGExtractor._create_chunk_from_text
CreateChunkFromText(text, section, page_title) ==
  LET title_parts == TitleParts(section)
  IN  [text |-> text,
       title |-> IF title_parts # << >> THEN Join(title_parts, <<" ", ">", " ">>)
                                        ELSE page_title,
       page_title |-> page_title,
       h1 |-> section.h1, h2 |-> section.h2, h3 |-> section.h3,
       url |-> PageUrl, source |-> PageUrl, depth |-> PageDepth,
       char_count |-> Len(text),
       chunk_id |-> PageUrl \o <<"#">> \o Join(title_parts, <<"-">>)
                      \o <<"-", "s", "p", "l", "i", "t">>]

\* _split_large_content, lines 114-124: the loop over the words of a sentence
\* longer than the target; w holds chunks, word_chunk and word_length
RECURSIVE WordLoop(_, _, _, _, _)
WordLoop(words, w, section, page_title, target) ==
  IF words = << >> THEN w
  ELSE LET word == Head(words)
           word_length == w.word_length + Len(word) + 1
           flush == word_length > target /\ w.word_chunk # << >>
       IN  WordLoop(Tail(words),
                    [chunks |-> IF flush
                                  THEN Append(w.chunks,
                                         CreateChunkFromText(Join(w.word_chunk, <<" ">>),
                                                             section, page_title))
                                  ELSE w.chunks,
                     word_chunk |-> IF flush THEN <<word>>
                                             ELSE Append(w.word_chunk, word),
                     word_length |-> IF flush THEN Len(word) + 1 ELSE word_length],
                    section, page_title, target)

\* _split_large_content, lines 91-131: the loop over the sentences; st holds
\* chunks, current_chunk_text and current_length
RECURSIVE SentenceLoop(_, _, _, _, _)
SentenceLoop(sentences, st, section, page_title, target) ==
  IF sentences = << >> THEN st
  ELSE LET stripped == Strip(Head(sentences))
           sentence == IF stripped # << >> /\ stripped[Len(stripped)] \in {".", "!", "?"}
                         THEN stripped
                         ELSE Append(stripped, ".")
           sentence_length == Len(sentence)
           flush == /\ st.current_length + sentence_length > target
                    /\ st.current_chunk_text # << >>
           st1 == IF flush
                    THEN [chunks |-> Append(st.chunks,
                                       CreateChunkFromText(
                                         Join(st.current_chunk_text, <<" ">>), section,
                                         page_title)),
                          current_chunk_text |-> << >>,
                          current_length |-> 0]
                    ELSE st
           w == WordLoop(SplitWords(sentence, << >>),
                         [chunks |-> st1.chunks, word_chunk |-> << >>, word_length |-> 0],
                         section, page_title, target)
           st2 == IF sentence_length > target
                    THEN [chunks |-> w.chunks,
                          current_chunk_text |-> st1.current_chunk_text \o w.word_chunk,
                          current_length |-> IF w.word_chunk # << >>
                                               THEN st1.current_length + w.word_length
                                               ELSE st1.current_length]
                    ELSE [chunks |-> st1.chunks,
                          current_chunk_text |-> Append(st1.current_chunk_text, sentence),
                          current_length |-> st1.current_length + sentence_length]
       IN  IF stripped = << >>
             THEN SentenceLoop(Tail(sentences), st, section, page_title, target)
             ELSE SentenceLoop(Tail(sentences), st2, section, page_title, target)

\* RAGExtractor._split_large_content: the chunks it returns
SplitLargeContent(section, large_text, page_title, target) ==
  LET first == IF section.content # << >> THEN <<CreateChunk(section, page_title)>>
                                          ELSE << >>
      st == SentenceLoop(SplitSentences(large_text, << >>),
                         [chunks |-> first, current_chunk_text |-> << >>,
                          current_length |-> 0],
                         section, page_title, target)
  IN  IF st.current_chunk_text # << >>
        THEN Append(st.chunks,
                    CreateChunkFromText(Join(st.current_chunk_text, <<" ">>), section,
                                        page_title))
        ELSE st.chunks

\* the number of elements of a document
MaxElements == 3

\* the elements a document is made of: tag name and text as it stands in the
\* page
El(name, text) == [name |-> name, text |-> text]

Elements ==
  { El("h1", <<"T">>), El("h2", <<"A", " ">>), El("h3", <<"C">>),
    El("p", <<"a", "a", "a">>),
    El("p", <<"a", " ", " ", " ", " ", ".", ".", " ", ".">>),
    El("pre", <<"x">>), El("ul", <<" ">>) }

Docs == UNION { [1..n -> Elements] : n \in 0..MaxElements }

\* chunk_size_target of the extractors tried
Targets == {3, 5, 6, 16}

\* soup.title.string, '' for a page without a title
PageTitles == { <<"P">>, << >> }

\* element.get_text(strip=True)
GetText(element) == Strip(element.text)

\* main_content.find_all(['h2', 'h3', 'p', 'ul', 'ol', 'pre'])
FindAll(doc) ==
  SelectSeq(doc, LAMBDA el : el.name \in {"h2", "h3", "p", "ul", "ol", "pre"})

\* main_content.find('h1') and the text it gives current_section['h1']
FirstH1(doc) ==
  LET h1s == SelectSeq(doc, LAMBDA el : el.name = "h1")
  IN  IF h1s # << >> THEN GetText(h1s[1]) ELSE << >>

EmptySection(h1, h2, h3) == [h1 |-> h1, h2 |-> h2, h3 |-> h3, content |-> << >>]

\* "[CODE]\n{text}\n[/CODE]"
CodeOpen  == <<"[", "C", "O", "D", "E", "]">>
CodeClose == <<"[", "/", "C", "O", "D", "E", "]">>
WrapCode(text) == CodeOpen \o <<"\n">> \o text \o <<"\n">> \o CodeClose

\* an h2 branch that emits the open section whatever its content
ExtractH2EmitsAlways(st, element, page_title) ==
  [section |-> EmptySection(st.section.h1, GetText(element), << >>),
   chunks  |-> Append(st.chunks, CreateChunk(st.section, page_title))]

\* an h2 branch that carries h3 over into the new section
ExtractH2KeepsH3(st, element, page_title) ==
  [section |-> EmptySection(st.section.h1, GetText(element), st.section.h3),
   chunks  |-> IF st.section.content # << >>
                 THEN Append(st.chunks, CreateChunk(st.section, page_title))
                 ELSE st.chunks]

\* extract, lines 32-40: an h2 element; st holds current_section and chunks
ExtractH2(st, element, page_title) ==
  [section |-> EmptySection(st.section.h1, GetText(element), << >>),
   chunks  |-> IF st.section.content # << >>
                 THEN Append(st.chunks, CreateChunk(st.section, page_title))
                 ELSE st.chunks]

\* an h3 branch that clears the content whatever its length
ExtractH3ClearsAlways(st, element, page_title, target) ==
  LET flush == Len(Join(st.section.content, <<" ">>)) > target
  IN  [section |-> [st.section EXCEPT !.h3 = GetText(element), !.content = << >>],
       chunks  |-> IF flush THEN Append(st.chunks, CreateChunk(st.section, page_title))
                            ELSE st.chunks]

\* extract, lines 41-46: an h3 element
ExtractH3(st, element, page_title, target) ==
  LET flush == Len(Join(st.section.content, <<" ">>)) > target
  IN  [section |-> [st.section EXCEPT !.h3 = GetText(element),
                                      !.content = IF flush THEN << >> ELSE @],
       chunks  |-> IF flush THEN Append(st.chunks, CreateChunk(st.section, page_title))
                            ELSE st.chunks]

\* extract, lines 47-73, with the content left in place after the chunk of
\* line 67
ExtractContentNoReset(st, element, page_title, target) ==
  LET stripped == GetText(element)
      text     == IF element.name = "pre" THEN WrapCode(stripped) ELSE stripped
      section  == [st.section EXCEPT !.content = Append(@, text)]
      cleared  == EmptySection(section.h1, section.h2, section.h3)
  IN  IF stripped = << >> THEN st
      ELSE IF Len(Join(section.content, <<" ">>)) > target
        THEN IF Len(text) > target
               THEN [section |-> cleared,
                     chunks  |-> st.chunks \o
                                   SplitLargeContent(section, text, page_title, target)]
               ELSE [section |-> section,
                     chunks  |-> Append(st.chunks, CreateChunk(section, page_title))]
        ELSE [section |-> section, chunks |-> st.chunks]

\* extract, lines 47-73, emitting as soon as the content reaches the target
ExtractContentFlushAtTarget(st, element, page_title, target) ==
  LET stripped == GetText(element)
      text     == IF element.name = "pre" THEN WrapCode(stripped) ELSE stripped
      section  == [st.section EXCEPT !.content = Append(@, text)]
      cleared  == EmptySection(section.h1, section.h2, section.h3)
  IN  IF stripped = << >> THEN st
      ELSE IF Len(Join(section.content, <<" ">>)) >= target
        THEN IF Len(text) >= target
               THEN [section |-> cleared,
                     chunks  |-> st.chunks \o
                                   SplitLargeContent(section, text, page_title, target)]
               ELSE [section |-> cleared,
                     chunks  |-> Append(st.chunks, CreateChunk(section, page_title))]
        ELSE [section |-> section, chunks |-> st.chunks]

\* extract, lines 47-73: a p, ul, ol or pre element
ExtractContent(st, element, page_title, target) ==
  LET stripped == GetText(element)
      text     == IF element.name = "pre" THEN WrapCode(stripped) ELSE stripped
      section  == [st.section EXCEPT !.content = Append(@, text)]
      cleared  == EmptySection(section.h1, section.h2, section.h3)
  IN  IF stripped = << >> THEN st
      ELSE IF Len(Join(section.content, <<" ">>)) > target
        THEN IF Len(text) > target
               THEN [section |-> cleared,
                     chunks  |-> st.chunks \o
                                   SplitLargeContent(section, text, page_title, target)]
               ELSE [section |-> cleared,
                     chunks  |-> Append(st.chunks, CreateChunk(section, page_title))]
        ELSE [section |-> section, chunks |-> st.chunks]

\* extract, lines 75-76: what is left when the elements are used up
ExtractFinish(st, page_title) ==
  IF st.section.content # << >>
    THEN Append(st.chunks, CreateChunk(st.section, page_title))
    ELSE st.chunks

\* extract, lines 31-73: the loop over the elements
RECURSIVE ExtractLoop(_, _, _, _)
ExtractLoop(st, elements, page_title, target) ==
  LET element == Head(elements)
      next == IF element.name = "h2" THEN ExtractH2(st, element, page_title)
              ELSE IF element.name = "h3"
                THEN ExtractH3(st, element, page_title, target)
                ELSE ExtractContent(st, element, page_title, target)
  IN  IF elements = << >> THEN st
      ELSE ExtractLoop(next, Tail(elements), page_title, target)

\* RAGExtractor(chunk_size_target=target).extract(url, soup, metadata): the
\* list it returns for a document
RunExtract(doc, page_title, target) ==
  ExtractFinish(ExtractLoop([section |-> EmptySection(FirstH1(doc), << >>, << >>),
                             chunks |-> << >>],
                            FindAll(doc), page_title, target),
                page_title)

\* extract is called: lines 13-29
RagCall(doc, page_title, target) ==
  [pc |-> "loop", doc |-> doc, elements |-> FindAll(doc), i |-> 1,
   target |-> target, page_title |-> page_title,
   section |-> EmptySection(FirstH1(doc), << >>, << >>), chunks |-> << >>]

\* one pass of the loop body has left st
RagApply(st) ==
  /\ rag' = [rag EXCEPT !.section = st.section, !.chunks = st.chunks, !.i = @ + 1]
  /\ UNCHANGED <<extractor, visited_urls, to_visit, collected_urls, collected_data,
                 pc, args, world, calls, results, crawls, api, batch, util>>

RagH2 ==
  /\ rag.pc = "loop" /\ rag.i <= Len(rag.elements)
  /\ rag.elements[rag.i].name = "h2"
  /\ RagApply(ExtractH2([section |-> rag.section, chunks |-> rag.chunks],
                        rag.elements[rag.i], rag.page_title))

RagH3 ==
  /\ rag.pc = "loop" /\ rag.i <= Len(rag.elements)
  /\ rag.elements[rag.i].name = "h3"
  /\ RagApply(ExtractH3([section |-> rag.section, chunks |-> rag.chunks],
                        rag.elements[rag.i], rag.page_title, rag.target))

RagContent ==
  /\ rag.pc = "loop" /\ rag.i <= Len(rag.elements)
  /\ rag.elements[rag.i].name \notin {"h2", "h3"}
  /\ RagApply(ExtractContent([section |-> rag.section, chunks |-> rag.chunks],
                             rag.elements[rag.i], rag.page_title, rag.target))

RagReturn ==
  /\ rag.pc = "loop" /\ rag.i > Len(rag.elements)
  /\ rag' = [rag EXCEPT !.pc = "returned",
                        !.chunks = ExtractFinish([section |-> rag.section,
                                                  chunks |-> rag.chunks],
                                                 rag.page_title)]
  /\ UNCHANGED <<extractor, visited_urls, to_visit, collected_urls, collected_data,
                 pc, args, world, calls, results, crawls, api, batch, util>>

InitRag ==
  /\ extractor = "rag"
  /\ visited_urls = {} /\ to_visit = << >>
  /\ collected_urls = << >> /\ collected_data = << >>
  /\ pc = "idle" /\ args = NoArgs /\ world = "down"
  /\ calls = << >> /\ results = NoResults /\ crawls = 0
  /\ api = NoApi /\ batch = NoBatch /\ util = NoUtil
  /\ \E doc \in Docs, page_title \in PageTitles, target \in Targets :
       rag = RagCall(doc, page_title, target)

RagNext == RagH2 \/ RagH3 \/ RagContent \/ RagReturn

SpecRag == InitRag /\ [][RagNext]_vars

\* documents made of h2 sections: an optional h1, then up to MaxSections
\* sections, each an h2 followed by a body
MaxSections == 2

DocSections ==
  { <<h>> \o b :
      h \in { El("h2", <<"A", " ">>), El("h2", <<"B">>) },
      b \in { <<El("p", <<"a", "a", "a">>)>>,
              <<El("h3", <<"C">>), El("p", <<"a", "a", "a">>)>>,
              <<El("p", <<"a", "a", "a">>), El("p", <<"a", "a", "a">>)>>,
              <<El("ul", <<" ">>)>>,
              <<El("pre", <<"x">>)>> } }

RECURSIVE Flatten(_)
Flatten(parts) == IF parts = << >> THEN << >> ELSE Head(parts) \o Flatten(Tail(parts))

SectionDocs ==
  { h \o Flatten(ss) : h \in { << >>, <<El("h1", <<"T">>)>> },
                       ss \in UNION { [1..n -> DocSections] : n \in 0..MaxSections } }

InitSections ==
  /\ extractor = "rag"
  /\ visited_urls = {} /\ to_visit = << >>
  /\ collected_urls = << >> /\ collected_data = << >>
  /\ pc = "idle" /\ args = NoArgs /\ world = "down"
  /\ calls = << >> /\ results = NoResults /\ crawls = 0
  /\ api = NoApi /\ batch = NoBatch /\ util = NoUtil
  /\ \E doc \in SectionDocs, page_title \in PageTitles, target \in Targets :
       rag = RagCall(doc, page_title, target)

SpecSections == InitSections /\ [][RagNext]_vars

\* ------------------------------------------------- what the claims speak of

\* the calls of one kind, in the order crawl() made them
Events(op) == SelectSeq(calls, LAMBDA c : c.op = op)

\* the pages crawl() has visited, with the depth it logged for each
Visits == Events("visiting")

NoDuplicates(seq) == \A i, j \in 1..Len(seq) : i # j => seq[i] # seq[j]

FrontierUrls == {to_visit[i][1] : i \in 1..Len(to_visit)}

\* the pages whose links crawl() has read
Expanded == {calls[i].url : i \in {k \in 1..Len(calls) : calls[k].op = "extract_links"}}

\* the links of page u that the crawl's domain and filter settings accept
AcceptedLinks(u) ==
  {n \in {NormalizeUrl(Links(world, u)[i]) : i \in 1..Len(Links(world, u))} :
     /\ IsValidUrl(n)
     /\ args.stay_within_domain => SameDomain(n, args.base_domain)
     /\ args.url_filter # "None" => ApplyFilter(args.url_filter, n)}

\* the least number of accepted links of expanded pages that lead from the
\* pages of layer (k hops from the start) to target; None when there is none
RECURSIVE HopsFrom(_, _, _, _)
HopsFrom(layer, seen, k, target) ==
  IF target \in layer THEN k
  ELSE IF layer = {} THEN None
  ELSE HopsFrom((UNION {AcceptedLinks(u) : u \in layer \cap Expanded})
                   \ (seen \cup layer),
                seen \cup layer, k + 1, target)

Hops(target) == HopsFrom({args.start_url}, {}, 0, target)

\* what the caller sees through the dict crawl() returned
ResultView ==
  [urls  |-> IF results.urls = "self.collected_urls" THEN collected_urls ELSE << >>,
   data  |-> IF results.data = "self.collected_data" THEN collected_data ELSE << >>,
   stats |-> results.stats]

\* the step pops an entry of the frontier
Pops == pc = "running" /\ to_visit # << >> /\ to_visit' # to_visit

\* the calls the step adds
NewCalls == SubSeq(calls', Len(calls) + 1, Len(calls'))

\* the entries the step puts on the frontier
NewEntries == SubSeq(to_visit', Len(to_visit), Len(to_visit'))

\* ------------------------------------------------------------------ claims

\* C1: during crawl() no URL is twice in collected_urls, collected_urls is as
\* long as the visited set is large, and get_page is called at most once per
\* URL, whatever the link graph.
C1_NoDuplicateVisits ==
  /\ NoDuplicates(collected_urls)
  /\ Len(collected_urls) = Cardinality(visited_urls)
  /\ \A i, j \in 1..Len(Events("get_page")) :
       i # j => Events("get_page")[i].url # Events("get_page")[j].url

\* a finished crawl of the cyclic site that met the self-link, the cycle back
\* to the start and the page linked from two pages
C1_Witness ==
  /\ pc = "returned"
  /\ world = "cyclic"
  /\ {Root, PX, PY, PZ} \subseteq visited_urls

\* C2: for every max_pages = N >= 0 the returned visited_count is at most N.
C2_PageCap ==
  (pc = "returned" /\ args.max_pages # None)
     => results.stats.visited_count <= args.max_pages

\* C3: the dict a crawl() returned shows the same urls, data and stats after
\* any later step of the engine, as long as the caller holds it.
C3_ResultImmutable ==
  [][(results.urls # "" /\ results' = results) => ResultView' = ResultView]_vars

\* C4: pages are visited in order of non-decreasing depth, the start URL at
\* depth 0, and each page at the least number of accepted links of fetched
\* pages that lead to it from the start URL; the extractor is given that depth.
C4_BreadthFirst ==
  /\ \A i, j \in 1..Len(Visits) : i < j => Visits[i].depth <= Visits[j].depth
  /\ \A i \in 1..Len(Visits) : Visits[i].depth = Hops(Visits[i].url)
  /\ \A i \in 1..Len(Visits) : Visits[i].url = collected_urls[i]
  /\ \A i \in 1..Len(Events("extract")) :
       \E j \in 1..Len(Visits) :
          /\ Visits[j].url = Events("extract")[i].url
          /\ Visits[j].depth = Events("extract")[i].depth

\* the cyclic site crawled to the end: /x is one link from the start and also
\* two and three links away, and /w is visited at depth 3
C4_Witness ==
  /\ pc = "returned"
  /\ world = "cyclic"
  /\ Len(Visits) = 6
  /\ \E i \in 1..Len(Visits) : Visits[i].url = PW /\ Visits[i].depth = 3
  /\ \E i \in 1..Len(Visits) : Visits[i].url = PX /\ Visits[i].depth = 1

\* C5 as stated: at the head of the loop the frontier holds no URL twice and
\* no visited URL.
C5_FrontierDistinctUnvisited ==
  pc = "running" =>
    /\ NoDuplicates([i \in 1..Len(to_visit) |-> to_visit[i][1]])
    /\ FrontierUrls \cap visited_urls = {}

\* C5 amended: a discovered link is put on the frontier only if its URL is not
\* visited at that moment (an URL that is only queued is queued again), and a
\* popped entry whose URL is visited is dropped: the visited set, the
\* collected URLs and the collaborators are left alone.
C5_RediscoveryDropped ==
  [][Pops =>
       /\ to_visit' = Tail(to_visit) \o NewEntries
       /\ \A i \in 1..Len(NewEntries) : NewEntries[i][1] \notin visited_urls'
       /\ Head(to_visit)[1] \in visited_urls =>
            /\ NewEntries = << >>
            /\ UNCHANGED <<visited_urls, collected_urls, collected_data, calls>>]_vars

\* the frontier holds two entries for one URL, and an entry of a visited URL
C5_Witness ==
  /\ pc = "running"
  /\ ~NoDuplicates([i \in 1..Len(to_visit) |-> to_visit[i][1]])
  /\ FrontierUrls \cap visited_urls # {}

\* C6: with max_depth set no page is visited, fetched or extracted at a depth
\* above it, and a popped entry above it is dropped without being re-enqueued.
C6_DepthCap ==
  /\ [](args.max_depth # None =>
          \A i \in 1..Len(calls) : calls[i].depth <= args.max_depth)
  /\ [][(Pops /\ args.max_depth # None /\ Head(to_visit)[2] > args.max_depth) =>
          /\ to_visit' = Tail(to_visit)
          /\ UNCHANGED <<visited_urls, collected_urls, collected_data, calls>>]_vars

\* the cyclic site crawled with max_depth = 1: the four pages of depth 0 and 1
\* are visited, /z (depth 2) was queued and dropped
C6_Witness ==
  /\ pc = "returned"
  /\ world = "cyclic"
  /\ args.max_depth = 1
  /\ args.start_url = Root
  /\ visited_urls = {Root, RootSlash, PX, PY}
  /\ to_visit = << >>

\* C7: with stay_within_domain every visited URL but the start URL, and every
\* URL on the frontier, has the scheme://host[:port] of the start URL.
C7_DomainScope ==
  args.stay_within_domain =>
    \A u \in (visited_urls \cup FrontierUrls) \ {args.start_url} :
       GetDomain(u) = GetDomain(args.start_url)

\* the start page of the external site was read (it links to another host,
\* scheme and port) and the crawl went on to /x and ended
C7_Witness ==
  /\ pc = "returned"
  /\ world = "external"
  /\ args.stay_within_domain
  /\ args.start_url = Root
  /\ {Root, PX} \subseteq Expanded

\* C8: when get_page returns None the URL is in the visited set and at the end
\* of collected_urls, the extractor and extract_links are not called, no data
\* is collected, nothing is put on the frontier, and the loop goes on.
C8_FetchFailure ==
  [][(Len(calls') > Len(calls) /\ calls'[Len(calls')].op = "get_page"
        /\ calls'[Len(calls')].res = "None") =>
       LET url == calls'[Len(calls')].url
       IN  /\ Len(NewCalls) = 2
           /\ NewCalls[1].op = "visiting"
           /\ url = Head(to_visit)[1]
           /\ visited_urls' = visited_urls \cup {url}
           /\ collected_urls' = Append(collected_urls, url)
           /\ collected_data' = collected_data
           /\ to_visit' = Tail(to_visit)
           /\ pc' = "running"]_vars

\* the fetch of /x failed and the crawl went on to visit /y and /z
C8_Witness ==
  /\ world = "deadx"
  /\ \E i \in 1..Len(calls) :
        /\ calls[i].op = "get_page" /\ calls[i].res = "None" /\ calls[i].url = PX
        /\ \E j \in (i + 1)..Len(calls) : calls[j].op = "get_page" /\ calls[j].res = "soup"
  /\ PX \in visited_urls
  /\ PZ \in visited_urls

\* C9: when extract raises, on_extraction_error is called once for the URL,
\* nothing is added to collected_data, the URL is visited, its links are put
\* on the frontier as for any page, and the loop goes on.
C9_ExtractionError ==
  [][(\E i \in 1..Len(NewCalls) : NewCalls[i].op = "extract" /\ NewCalls[i].res = "raise") =>
       LET url == Head(to_visit)[1]
       IN  /\ Len(SelectSeq(NewCalls, LAMBDA c : c.op = "on_extraction_error")) = 1
           /\ \A i \in 1..Len(NewCalls) : NewCalls[i].url = url
           /\ NewCalls[Len(NewCalls)].op = "extract_links"
           /\ collected_data' = collected_data
           /\ visited_urls' = visited_urls \cup {url}
           /\ collected_urls' = Append(collected_urls, url)
           /\ to_visit' = Tail(to_visit) \o
                [i \in 1..Len(NewEntries) |-> <<NewEntries[i][1], Head(to_visit)[2] + 1>>]
           /\ {NewEntries[i][1] : i \in 1..Len(NewEntries)} = AcceptedLinks(url) \ visited_urls'
           /\ pc' = "running"]_vars

\* extract raised on /x of the cyclic site; /z, which only /x and /y link to,
\* and /w behind it were visited afterwards and gave data
C9_Witness ==
  /\ pc = "returned"
  /\ extractor = "faulty"
  /\ world = "cyclic"
  /\ Len(Events("on_extraction_error")) = 1
  /\ Events("on_extraction_error")[1].url = PX
  /\ PW \in visited_urls
  /\ \E i \in 1..Len(collected_data) : collected_data[i].url = PW

\* C10: a start URL whose scheme is not http or https makes crawl() raise with
\* the frontier and the visited set empty and no collaborator called, and
\* crawl() raises for no other start URL.
C10_InvalidStart ==
  /\ pc = "raised" =>
       /\ ~(Scheme(Head(args.start_url)) \in {"http", "https"})
       /\ to_visit = << >>
       /\ visited_urls = {}
       /\ calls = << >>
  /\ pc \in {"running", "returned"} => Scheme(Head(args.start_url)) \in {"http", "https"}

\* crawl('ftp://a.com/x') raised
C10_Witness ==
  /\ pc = "raised"
  /\ args.start_url = FX
  /\ crawls = 1

\* C11: on a finite site every crawl() that has entered its loop returns, for
\* every max_depth and max_pages (unset included), link cycles or not.
C11_Terminates == (pc = "running") ~> (pc = "returned")

\* an uncapped crawl of the cyclic site returned after /y, which links back to
\* the start page and to /x, was expanded
C11_Witness ==
  /\ pc = "returned"
  /\ world = "cyclic"
  /\ args.max_depth = None
  /\ args.max_pages = None
  /\ PY \in Expanded
  /\ {Root, PX, PY, PZ, PW} \subseteq visited_urls

\* C12: when crawl() returns, stats.visited_count is the size of the visited
\* set, queued_count the length of the frontier, collected_count the length of
\* the urls list and data_count the length of the data list; a start page
\* without links crawled with max_pages = 1 gives visited_count 1, queued_count 0.
C12_StatsAtReturn ==
  pc = "returned" =>
    /\ results.stats.visited_count = Cardinality(visited_urls)
    /\ results.stats.queued_count = Len(to_visit)
    /\ results.stats.collected_count = Len(ResultView.urls)
    /\ results.stats.data_count = Len(ResultView.data)
    /\ (Links(world, args.start_url) = << >> /\ args.max_pages = 1) =>
         /\ results.stats.visited_count = 1
         /\ results.stats.queued_count = 0

\* the page cap stopped a crawl with a chunking extractor: entries are left
\* on the frontier and the data list is longer than the urls list
C12_Witness ==
  /\ pc = "returned"
  /\ extractor = "rag"
  /\ args.max_pages = 2
  /\ results.stats.visited_count = 2
  /\ results.stats.queued_count > 0
  /\ results.stats.data_count > results.stats.collected_count

\* C13: within one crawl() the visited set only grows; a new crawl() starts
\* with the visited set and both lists empty, and what a crawl returns holds
\* the pages and records of that crawl only.
C13_VisitedPerCrawl ==
  /\ [][/\ crawls' = crawls => visited_urls \subseteq visited_urls'
        /\ crawls' # crawls =>
             /\ visited_urls' = {}
             /\ collected_urls' = << >>
             /\ collected_data' = << >>
             /\ \A i \in 1..Len(to_visit') : to_visit'[i] = <<args'.start_url, 0>>]_vars
  /\ [](pc = "returned" =>
          /\ ResultView.urls = [i \in 1..Len(Visits) |-> Visits[i].url]
          /\ visited_urls = {Visits[i].url : i \in 1..Len(Visits)}
          /\ \A i \in 1..Len(ResultView.data) :
               ResultView.data[i].url \in visited_urls)

\* a second crawl() has just started on an engine whose first crawl visited
\* pages and collected records
C13_Witness ==
  /\ crawls = 2
  /\ pc = "running"
  /\ results # NoResults
  /\ results.stats.visited_count >= 2
  /\ results.stats.data_count >= 1
  /\ visited_urls = {}
  /\ collected_urls = << >>
  /\ collected_data = << >>

\* C14: with a url_filter every visited and fetched URL satisfies it, the
\* start URL included; a start URL it rejects gives visited_count 0 and no
\* get_page call; a link it rejects is never put on the frontier.
C14_UrlFilter ==
  args.url_filter # "None" =>
    /\ \A u \in visited_urls : ApplyFilter(args.url_filter, u)
    /\ \A i \in 1..Len(calls) : ApplyFilter(args.url_filter, calls[i].url)
    /\ \A i \in 1..Len(to_visit) :
         to_visit[i][2] > 0 => ApplyFilter(args.url_filter, to_visit[i][1])
    /\ (pc = "returned" /\ ~ApplyFilter(args.url_filter, args.start_url)) =>
         /\ results.stats.visited_count = 0
         /\ Events("get_page") = << >>

\* 'y' not in url on the cyclic site: the start page and /x, which both link
\* to /y, were expanded and /y was neither visited nor left on the frontier
C14_Witness ==
  /\ pc = "returned"
  /\ args.url_filter = "no_y"
  /\ world = "cyclic"
  /\ {Root, PX} \subseteq Expanded
  /\ PY \notin visited_urls \cup FrontierUrls
  /\ PZ \in visited_urls

\* C15: an extractor installed with set_custom_extractor, before or after the
\* session's first operation, is the extractor every later crawl_site uses.
C15_CustomExtractorUsed ==
  (pc = "running" /\ api.custom # "None") => extractor = api.custom

\* C16: after a crawl_site that collected at least one record, save_results
\* with 'json' or 'csv' returns True and calls that writer once with the
\* collected data.
C16_SaveResults ==
  (/\ api.last.op \in {"save_results_json", "save_results_csv"}
   /\ pc = "returned"
   /\ Len(collected_data) >= 1) =>
    /\ api.last.ret = "True"
    /\ Len(api.last.writer) = 1
    /\ api.last.writer[1].data = collected_data

\* C17: get_chunks returns [] before any crawl and, after crawl_for_rag, the
\* chunk records of that crawl without raising; get_chunks_by_page(url)
\* returns those whose url is url.
C17_GetChunks ==
  (api.kind = "RAGScraper" /\ Quiescent) =>
    /\ ~GetChunks.raised
    /\ crawls = 0 => GetChunks.value = << >>
    /\ pc = "returned" =>
         /\ GetChunks.value = ResultView.data
         /\ \A url \in visited_urls :
              /\ ~GetChunksByPage(url).raised
              /\ GetChunksByPage(url).value =
                   SelectSeq(ResultView.data, LAMBDA chunk : chunk.url = url)

\* the three session fields are all set or all None
AllThree(a, set) ==
  /\ (a.scraper # "None") = set
  /\ (a.crawler # "None") = set
  /\ set => a.extractor # "None"

\* C18: scraper, crawler and extractor are created by the first operation
\* that fetches (scrape_page, extract_from_page, crawl_site, crawl_for_rag);
\* close() calls the scraper's close once per initialisation and clears all
\* three; close() on a session that is not initialised does nothing; __exit__
\* does what close() does; a closed session initialises again on its next
\* operation.
C18_Lifecycle ==
  /\ [](/\ AllThree(api, api.scraper # "None")
        /\ api.inits = api.closes + (IF api.scraper # "None" THEN 1 ELSE 0))
  /\ [][api' # api =>
          IF api'.last.op \in {"close", "__exit__"}
            THEN IF api.scraper # "None"
                   THEN /\ AllThree(api', FALSE)
                        /\ api'.extractor = "None"
                        /\ api'.closes = api.closes + 1
                   ELSE /\ api' = [api EXCEPT !.last = api'.last]
                        /\ UNCHANGED <<extractor, visited_urls, to_visit, pc>>
            ELSE IF api'.last.op \in {"set_custom_extractor", "save_results_json",
                                      "save_results_csv", "save_results_xml"}
                   THEN /\ api'.scraper = api.scraper
                        /\ api'.crawler = api.crawler
                        /\ api'.inits = api.inits
                   ELSE /\ AllThree(api', TRUE)
                        /\ api'.inits = api.inits + (IF api.scraper = "None" THEN 1 ELSE 0)
                        /\ api'.closes = api.closes]_vars

\* a session that was initialised, closed, and initialised again by a later
\* operation
C18_Witness ==
  /\ api.inits = 2
  /\ api.closes = 1
  /\ api.scraper = "open"
  /\ api.crawler = "WebCrawler"

\* C19: with no crawl performed on the session (new, after scrape_page calls
\* only, or after close) get_url_statistics returns the error dict and
\* get_all_urls and get_visited_urls return [].
C19_NoCrawlGetters ==
  (api.kind = "ScraperAPI" /\ crawls = 0) =>
    /\ DOMAIN GetUrlStatistics = {"error"}
    /\ GetAllUrls = {}
    /\ GetVisitedUrls = {}

\* C20: every site of crawl_multiple_sites has an engine of its own: a step of
\* one worker changes no other engine, and under every interleaving the engine
\* of a finished site is as if the site had been crawled alone.
C20_EnginesIndependent ==
  /\ [](\A i \in 1..Len(batch.engines) :
          batch.engines[i].pc \in {"returned", "raised"} =>
            batch.engines[i] =
              RunAlone(StartEngine(NewBatchEngine, batch.sites[i]),
                       BatchExtractor(batch.extractor_type), batch.world))
  /\ [][\A i, j \in 1..Len(batch.engines) :
          (i # j /\ batch.pc = "running" /\ batch'.engines[i] # batch.engines[i])
            => batch'.engines[j] = batch.engines[j]]_vars

\* two workers at once on overlapping sites: the crawl of https://a.com/x has
\* returned while the crawl of https://a.com is under way, and both have
\* visited /x
C20_Witness ==
  /\ batch.pc = "running"
  /\ Len(batch.engines) = 2
  /\ batch.sites[1].url = Root
  /\ batch.sites[2].url = PX
  /\ batch.engines[1].pc = "running"
  /\ batch.engines[2].pc = "returned"
  /\ PX \in batch.engines[1].visited_urls \cap batch.engines[2].visited_urls

\* C21: crawl_multiple_sites returns one entry for each input site; a site
\* whose crawl raised has an entry with an 'error' key and every other site
\* has a 'success' entry with 'results'.
C21_OneEntryPerSite ==
  batch.pc = "returned" =>
    /\ Len(batch.results) = Len(batch.sites)
    /\ \A i \in 1..Len(batch.sites) :
         \E k \in 1..Len(batch.results) :
           /\ batch.results[k].key = batch.sites[i].url
           /\ IF batch.engines[i].pc = "raised"
                THEN "error" \in DOMAIN batch.results[k].value
                ELSE /\ "results" \in DOMAIN batch.results[k].value
                     /\ batch.results[k].value.status = "success"

\* ------------------------------------------------------ chunker vocabulary

\* the chunks emitted so far
Chunks == { rag.chunks[k] : k \in 1..Len(rag.chunks) }

\* the heading path of a chunk joined with '-'
HeadingPath(c) == Join(TitleParts(c), <<"-">>)

\* a chunk that came out of _create_chunk_from_text
FromSplit(c) == c.chunk_id # PageUrl \o <<"#">> \o HeadingPath(c)

Returned == rag.pc = "returned"

\* C22: every emitted chunk, from either emission path, has char_count equal
\* to the length of its text.
C22_CharCount == \A c \in Chunks : c.char_count = Len(c.text)

\* an extraction that emitted a chunk of several fragments through
\* _create_chunk and a chunk through _create_chunk_from_text
C22_Witness ==
  /\ Returned
  /\ \E c \in Chunks : ~FromSplit(c) /\ \E k \in 1..Len(c.text) : c.text[k] = " "
  /\ \E c \in Chunks : FromSplit(c) /\ c.char_count > 0

\* C23: the title of every emitted chunk is the ' > '-join of the non-empty
\* values among its h1, h2, h3, in that order, and is page_title when all three
\* are empty.
C23_Title ==
  \A c \in Chunks :
    /\ TitleParts(c) # << >> => c.title = Join(TitleParts(c), <<" ", ">", " ">>)
    /\ TitleParts(c) = << >> => c.title = c.page_title /\ c.page_title = rag.page_title

\* an extraction that emitted, through both paths, chunks under two headings
C23_Witness ==
  /\ Returned
  /\ \E c, d \in Chunks :
       /\ ~FromSplit(c) /\ FromSplit(d)
       /\ c.title = <<"T", " ", ">", " ", "A">> /\ d.title = c.title

\* the document has no h1, h2 or h3
HeadingLess(doc) == \A k \in 1..Len(doc) : doc[k].name \notin {"h1", "h2", "h3"}

\* the fragments the p, ul, ol and pre elements of a document contribute
ContentOf(doc) ==
  LET filled == SelectSeq(doc, LAMBDA el : /\ el.name \in {"p", "ul", "ol", "pre"}
                                           /\ GetText(el) # << >>)
  IN  [k \in 1..Len(filled) |->
         IF filled[k].name = "pre" THEN WrapCode(GetText(filled[k]))
                                   ELSE GetText(filled[k])]

NoHeadings(c) == c.h1 = << >> /\ c.h2 = << >> /\ c.h3 = << >>

RECURSIVE PartsOf(_, _)
PartsOf(elements, parts) ==
  IF elements = << >> THEN parts
  ELSE IF Head(elements).name = "h2"
    THEN PartsOf(Tail(elements),
                 Append(parts, [h2 |-> GetText(Head(elements)), body |-> << >>]))
    ELSE PartsOf(Tail(elements),
                 [parts EXCEPT ![Len(parts)].body = Append(@, Head(elements))])

Parts(doc) == PartsOf(FindAll(doc), <<[h2 |-> << >>, body |-> << >>]>>)

\* the parts that have non-empty content
FilledParts(doc) == SelectSeq(Parts(doc), LAMBDA part : ContentOf(part.body) # << >>)

\* the text of the last h3 of a part, '' when it has none
LastH3(part) ==
  LET h3s == SelectSeq(part.body, LAMBDA el : el.name = "h3")
  IN  IF h3s = << >> THEN << >> ELSE GetText(h3s[Len(h3s)])

\* every part's space-joined content is within the target
PartsWithinTarget(doc, target) ==
  \A k \in 1..Len(Parts(doc)) :
    Len(Join(ContentOf(Parts(doc)[k].body), <<" ">>)) <= target

\* C25: for a document made of an h1 and h2 sections whose content is within
\* the size target, the chunker emits one chunk for each section that has
\* content, in document order; the i-th chunk carries the i-th section's h2
\* and content, all chunks carry the document's h1, h3 is that of the chunk's
\* own section (an h2 resets it to empty), and an h2 met while the content is
\* empty emits nothing.
C25_OneChunkPerSection ==
  (Returned /\ PartsWithinTarget(rag.doc, rag.target)) =>
    LET filled == FilledParts(rag.doc)
    IN  /\ Len(rag.chunks) = Len(filled)
        /\ \A k \in 1..Len(filled) :
             /\ rag.chunks[k].h2 = filled[k].h2
             /\ rag.chunks[k].h1 = FirstH1(rag.doc)
             /\ rag.chunks[k].h3 = LastH3(filled[k])
             /\ rag.chunks[k].text = Join(ContentOf(filled[k].body), <<" ">>)

\* an h1 and two sections with distinct headings, the first with an h3, each
\* with content within the target: two chunks, the second with h3 empty
C25_Witness ==
  /\ Returned /\ PartsWithinTarget(rag.doc, rag.target)
  /\ FirstH1(rag.doc) = <<"T">>
  /\ Len(rag.chunks) = 2 /\ Len(Parts(rag.doc)) = 3
  /\ rag.chunks[1].h2 = <<"A">> /\ rag.chunks[1].h3 = <<"C">>
  /\ rag.chunks[2].h2 = <<"B">> /\ rag.chunks[2].h3 = << >>
  /\ rag.chunks[1].h1 = <<"T">> /\ rag.chunks[2].h1 = <<"T">>

\* C26: the chunk_id of every emitted chunk is url + '#' + the '-'-join of the
\* non-empty values among its h1, h2, h3; it depends only on the URL and the
\* heading path.
C26_ChunkId ==
  \A c \in Chunks : c.chunk_id = c.url \o <<"#">> \o HeadingPath(c)

\* C27: every emitted chunk has char_count <= 2 * chunk_size_target, for every
\* document and every positive target.
C27_CharCountBound ==
  \A c \in Chunks : c.char_count <= 2 * rag.target

\* pat occurs in text at position k
OccursAt(text, pat, k) ==
  /\ k >= 1 /\ k + Len(pat) - 1 <= Len(text)
  /\ SubSeq(text, k, k + Len(pat) - 1) = pat

\* the wrapped texts of the non-empty pre elements of a document
CodeBlocks(doc) ==
  { WrapCode(GetText(doc[k])) : k \in { j \in 1..Len(doc) : /\ doc[j].name = "pre"
                                                            /\ GetText(doc[j]) # << >> } }

\* C28: the text of every non-empty pre element stands in a chunk wrapped as
\* '[CODE]\n' + text + '\n[/CODE]', and wherever a chunk has an opening or a
\* closing marker it has the whole wrapped block, so both markers are in the
\* same chunk.
C28_CodeWrapped ==
  /\ Returned => \A block \in CodeBlocks(rag.doc) :
                   \E c \in Chunks : \E k \in 1..Len(c.text) : OccursAt(c.text, block, k)
  /\ \A c \in Chunks : \A k \in 1..Len(c.text) :
       /\ OccursAt(c.text, CodeOpen, k) =>
            \E block \in CodeBlocks(rag.doc) : OccursAt(c.text, block, k)
       /\ OccursAt(c.text, CodeClose, k) =>
            \E block \in CodeBlocks(rag.doc) :
              OccursAt(c.text, block, k + Len(CodeClose) - Len(block))

HasTag(doc, name) == \E k \in 1..Len(doc) : doc[k].name = name

\* C29: a document with no non-empty p/ul/ol/pre text yields zero chunks,
\* headings alone never produce a chunk; the extraction is in its loop or has
\* returned, with a branch for every element it meets whichever headings are
\* missing, and a heading the document does not have is the empty string in
\* every chunk.
C29_NoContentNoChunks ==
  /\ ContentOf(rag.doc) = << >> => rag.chunks = << >>
  /\ rag.pc \in {"loop", "returned"}
  /\ rag.pc = "loop" =>
       \/ rag.i > Len(rag.elements)
       \/ /\ rag.i \in 1..Len(rag.elements)
          /\ rag.elements[rag.i].name \in {"h2", "h3", "p", "ul", "ol", "pre"}
  /\ \A c \in Chunks :
       /\ ~HasTag(rag.doc, "h1") => c.h1 = << >>
       /\ ~HasTag(rag.doc, "h2") => c.h2 = << >>
       /\ ~HasTag(rag.doc, "h3") => c.h3 = << >>

\* a document of headings and whitespace only has returned without a chunk
C29_Witness ==
  /\ Returned /\ rag.chunks = << >>
  /\ HasTag(rag.doc, "h2") /\ HasTag(rag.doc, "ul") /\ Len(rag.doc) = MaxElements

\* C30: for the same document and two size targets s <= l, the chunker with
\* target s emits at least as many chunks as the chunker with target l.
C30_SmallerTargetMoreChunks ==
  Returned =>
    \A l \in Targets :
      rag.target <= l =>
        Len(rag.chunks) >= Len(RunExtract(rag.doc, rag.page_title, l))

\* ------------------------------------------------------ URLFilter claims

\* C31: normalize_url is idempotent: normalize_url(normalize_url(u)) equals
\* normalize_url(u) for every URL u, also when its query or fragment ends with
\* '/' and when it has several trailing slashes.
C31_NormalizeIdempotent ==
  Len(util.out) >= 2 => util.out[2] = util.out[1]

\* s without its trailing characters is n, and what was cut are slashes
CutSlashes(s, n) ==
  /\ Len(n) <= Len(s) /\ SubSeq(s, 1, Len(n)) = n
  /\ \A k \in (Len(n) + 1)..Len(s) : s[k] = "/"
  /\ n[Len(n)] # "/"

\* url is as normalize_url leaves a URL: without fragment, and without a
\* trailing slash unless its path is "/"
IsNormalized(url) ==
  /\ \A k \in 2..Len(url) : url[k] # "#"
  /\ EndsWithSlash(url) => UrlParse(url).path = <<"/">>

\* C32: normalize_url removes the fragment and, when what is left ends with
\* '/' and the path is not exactly '/', removes the trailing slash, so that
\* 'https://a.com/x/' becomes 'https://a.com/x' and 'https://a.com/' stays;
\* in a crawl every visited and every queued URL is of that form and no URL
\* is visited twice, so links that differ only in the fragment or in a
\* trailing slash on a non-root path are visited once.
C32_Normalize ==
  /\ pc = "idle" =>
       /\ \A u \in UtilUrls :
            LET parsed == UrlParse(u)
                bare   == <<Head(u)>> \o parsed.path
                            \o (IF parsed.query = << >> THEN << >>
                                ELSE <<"?">> \o parsed.query)
                n      == NormalizeUrl(u)
            IN  /\ \A k \in 2..Len(n) : n[k] # "#"
                /\ IF bare[Len(bare)] = "/" /\ Len(bare) > 1 /\ parsed.path # <<"/">>
                     THEN CutSlashes(bare, n)
                     ELSE n = bare
       /\ NormalizeUrl(<<A, "/", "x", "/">>) = PX
       /\ NormalizeUrl(RootSlash) = RootSlash
  /\ \A u \in visited_urls \cup FrontierUrls : IsNormalized(u)
  /\ NoDuplicates(collected_urls)

\* a crawl has read the pages that link to /x/, to /x and to /x#f, and to
\* /y#f, and has visited /x and /y once each
C32_Witness ==
  /\ pc = "returned" /\ world = "cyclic"
  /\ {Root, PX, PZ} \subseteq Expanded
  /\ Len(SelectSeq(collected_urls, LAMBDA u : u = PX)) = 1
  /\ Len(SelectSeq(collected_urls, LAMBDA u : u = PY)) = 1

\* d starts with 'http://' or 'https://'
HasHttpScheme(d) == Scheme(Head(d)) \in {"http", "https"}

\* C33: same_domain(url, d) is, for a d that starts with 'http://' or
\* 'https://', true iff domain_of(url) == domain_of(d), and for any other d,
\* a bare host, true iff domain_of(url) ends with d or is 'https://' + d or
\* 'http://' + d; _should_visit with a bare-host base rejects a valid URL of
\* another host when stay_within_domain is True and accepts it when it is
\* False.
C33_SameDomain ==
  /\ util.same # "" =>
       (util.same = "True") =
         IF HasHttpScheme(util.domain)
           THEN GetDomain(util.url) = GetDomain(util.domain)
           ELSE /\ Len(util.domain) = 1
                /\ \/ util.domain = <<REL>>
                   \/ /\ Scheme(Head(util.url)) # ""
                      /\ DomainEndsWith(Head(util.url), util.domain[1])
                   \/ /\ HasHttpScheme(util.url)
                      /\ Netloc(Head(util.url)) = util.domain[1]
  /\ (/\ util.visit # << >> /\ util.domain = <<BareA>>
      /\ IsValidUrl(util.url) /\ Netloc(Head(util.url)) # BareA) =>
       util.visit[1].ret = ~util.visit[1].stay

\* ------------------------------------------------- chunker claims, h3 and
\* content

\* the loop of extract is at an h3 element
AtH3 ==
  /\ rag.pc = "loop" /\ rag.i <= Len(rag.elements)
  /\ rag.elements[rag.i].name = "h3"

\* what the h3 branch makes of the state the loop is in
AfterH3 ==
  ExtractH3([section |-> rag.section, chunks |-> rag.chunks],
            rag.elements[rag.i], rag.page_title, rag.target)

\* C36: after each element has been processed the space-joined length of
\* Section.content is at most chunk_size_target; hence the flush condition of
\* the h3 branch is never true and no chunk is emitted at an h3.
C36_ContentWithinTarget ==
  /\ Len(Join(rag.section.content, <<" ">>)) <= rag.target
  /\ AtH3 => AfterH3.chunks = rag.chunks

\* an h3 has been passed with content at hand, after an earlier overflow
C36_Witness ==
  /\ rag.pc = "loop" /\ rag.i = 4
  /\ rag.elements[3].name = "h3"
  /\ rag.chunks # << >> /\ rag.section.content # << >>
  /\ rag.section.h3 = <<"C">>

\* the state the loop is in, with a fragment longer than the target added to
\* the content
Overfull ==
  [section |-> [rag.section EXCEPT
                  !.content = Append(@, [k \in 1..(rag.target + 1) |-> "a"])],
   chunks  |-> rag.chunks]

\* C34: at an h3, content whose space-joined length exceeds the size target
\* is emitted as a chunk under the previous h3 and cleared; content that does
\* not exceed it is kept and no chunk is emitted; either way h1 and h2 stay
\* and Section.h3 becomes the text of the h3.
C34_H3Boundary ==
  AtH3 =>
    LET element == rag.elements[rag.i]
        flushed == ExtractH3(Overfull, element, rag.page_title, rag.target)
    IN  /\ Len(Join(rag.section.content, <<" ">>)) <= rag.target =>
             /\ AfterH3.chunks = rag.chunks
             /\ AfterH3.section.content = rag.section.content
        /\ flushed.chunks = Append(rag.chunks, CreateChunk(Overfull.section, rag.page_title))
        /\ flushed.chunks[Len(flushed.chunks)].h3 = rag.section.h3
        /\ flushed.section.content = << >>
        /\ \A after \in {AfterH3, flushed} :
             /\ after.section.h1 = rag.section.h1
             /\ after.section.h2 = rag.section.h2
             /\ after.section.h3 = GetText(element)

\* an h3 has been passed under an h2 with content at hand: the content and
\* the h2 are kept and the h3 is set
C34_Witness ==
  /\ rag.pc = "loop" /\ rag.i = 4
  /\ rag.elements[1].name = "h2" /\ rag.elements[3].name = "h3"
  /\ rag.section.h2 = <<"A">> /\ rag.section.h3 = <<"C">>
  /\ rag.section.content # << >> /\ rag.chunks = << >>

\* the texts of the chunks emitted, in order
ChunkTexts == [k \in 1..Len(rag.chunks) |-> rag.chunks[k].text]

\* C35: the content is reset whenever a chunk is emitted, so every accepted
\* fragment is in exactly one chunk: the chunk texts, one after the other, are
\* the fragments of the page in document order, none twice and none missing,
\* also for a p or pre longer than the size target.
C35_EachFragmentOnce ==
  Returned =>
    Join(ChunkTexts, <<" ">>) = Join(ContentOf(rag.doc), <<" ">>)

\* ------------------------------------------------------ crawl, once more

\* C37: when crawl() returns, either the frontier is empty and queued_count is
\* 0, or max_pages is set and visited_count is exactly max_pages; the step
\* that ends the loop is the loop test or the page-cap test, never the visit
\* of a page, so a failed fetch or extraction does not stop the crawl.
C37_StopReasons ==
  /\ [](pc = "returned" =>
          \/ to_visit = << >> /\ results.stats.queued_count = 0
          \/ /\ args.max_pages # None
             /\ results.stats.visited_count = args.max_pages)
  /\ [][/\ (pc = "running" /\ pc' # "running") =>
             /\ pc' = "returned"
             /\ NewCalls = << >>
             /\ visited_urls' = visited_urls /\ to_visit' = to_visit
        /\ (pc = "running" /\ Len(calls') > Len(calls)) => pc' = "running"]_vars

\* a crawl without page cap in which a fetch failed went on to other pages
\* and returned when the frontier was empty
C37_Witness ==
  /\ pc = "returned"
  /\ args.max_pages = None /\ to_visit = << >>
  /\ results.stats.visited_count > 2
  /\ \E i \in 1..Len(calls) :
       /\ calls[i].op = "get_page" /\ calls[i].res = "None"
       /\ \E j \in (i + 1)..Len(calls) : calls[j].op = "extract_links"

\* C38: crawl() with an invalid start URL on an engine that holds the results
\* of an earlier crawl raises after the reset has run: the visited set, the
\* frontier, collected_urls and collected_data are empty, and so are the lists
\* of the dict the earlier crawl returned; the earlier results are not
\* preserved.
C38_InvalidStartClears ==
  (pc = "raised" /\ crawls >= 2) =>
    /\ visited_urls = {} /\ to_visit = << >>
    /\ collected_urls = << >> /\ collected_data = << >>
    /\ results # NoResults => ResultView.urls = << >> /\ ResultView.data = << >>

\* a second crawl() with an ftp start URL has raised on an engine whose first
\* crawl had returned pages and data
C38_Witness ==
  /\ pc = "raised" /\ crawls = 2
  /\ results # NoResults
  /\ results.stats.visited_count >= 2 /\ results.stats.data_count >= 1
  /\ Scheme(Head(args.start_url)) = "ftp"
====
